---- MODULE Spec2Model ----
(***************************************************************************)
(* A model of the viper scripting language (NukedOne/viper).               *)
(*                                                                         *)
(*   src/spam.py              the prototype: Tokenizer, Parser, Interpreter*)
(*                            and main(); definitions prefixed P_          *)
(*   src/viper/_parser.py     the extended AST nodes and Parser            *)
(*   src/viper/interpreter.py the extended Interpreter; both prefixed X_   *)
(*                                                                         *)
(* Source texts, token values and names are strings; Python's 0-based      *)
(* indices are kept.  Python floats are modelled as exact rationals n/d    *)
(* (IEEE rounding is not modelled).  A fatal Python exception is a status  *)
(* naming the exception class.                                             *)
(***************************************************************************)
EXTENDS Integers, Sequences, FiniteSets, TLC

VARIABLES
    impl,       \* "proto" (src/spam.py) or "ext" (src/viper)
    phase,      \* position of the driver: "lex", "parse", "exec", "done", "fatal"
    err,        \* the exception class that ended the run, "" when none
    source,     \* Tokenizer.source
    current,    \* Tokenizer.current
    tokens,     \* the token list: built by the Tokenizer, popped by the Parser
    ast,        \* the statements parsed so far (Parser.parse's ast)
    ctl,        \* what the interpreter is doing now
    stack,      \* the interpreter's suspended activations, innermost last
    locals,     \* Interpreter.locals
    globals,    \* Interpreter.globals (extended only)
    functions,  \* Interpreter.functions
    depth,      \* Interpreter.depth (extended only)
    out,        \* the values written by print(), in order
    retval,     \* the result of the statement sequence
    input,      \* the input the run started from (kept for reference)
    pres,       \* result of the prototype operation applied to input
    xres        \* result of the extended operation applied to input

vars == <<impl, phase, err, source, current, tokens, ast, ctl, stack, locals, globals,
          functions, depth, out, retval, input, pres, xres>>

lexVars  == <<source, current>>
runVars  == <<locals, globals, functions, depth, out, retval, ctl, stack>>
pureVars == <<input, pres, xres>>

Min(a, b) == IF a < b THEN a ELSE b

(***************************************************************************)
(* Bounds of the model.                                                    *)
(***************************************************************************)
MaxSrcLen == 4      \* longest source text of SpecLex

(***************************************************************************)
(* Characters (str.isspace, str.isalpha, str.isdigit on the ASCII subset). *)
(***************************************************************************)
Letters == {"a","b","c","d","e","f","g","h","i","j","k","l","m",
            "n","o","p","q","r","s","t","u","v","w","x","y","z"}
Digits  == {"0","1","2","3","4","5","6","7","8","9"}
Spaces  == {" ", "\n"}

isspace(c) == c \in Spaces
isalpha(c) == c \in Letters
isdigit(c) == c \in Digits

\* source[i] for 0 <= i < len(source)
CharAt(s, i) == SubSeq(s, i + 1, i + 1)
\* source[a:b] for 0 <= a: Python clamps a slice to the string
Slice(s, a, b) == SubSeq(s, Min(a, Len(s)) + 1, Min(b, Len(s)))

(***************************************************************************)
(* Token (src/spam.py:42-48)                                               *)
(***************************************************************************)
Token(kind, value) == [kind |-> kind, value |-> value]
NoToken == Token("NONE", "")

(***************************************************************************)
(* Tokenizer (src/spam.py:51-151)                                          *)
(***************************************************************************)
\* the while loop of Tokenizer.identifier: the first index whose character
\* does not continue an identifier; -1 when source[c] raises IndexError
RECURSIVE P_identifier_scan(_, _)
P_identifier_scan(src, c) ==
    IF c >= Len(src) THEN -1
    ELSE IF isalpha(CharAt(src, c)) \/ isdigit(CharAt(src, c)) \/ CharAt(src, c) = "_"
         THEN P_identifier_scan(src, c + 1)
         ELSE c

P_identifier(src, cur) ==
    LET c == P_identifier_scan(src, cur) IN
    IF c = -1
    THEN [err |-> "IndexError", token |-> NoToken, current |-> cur]
    ELSE [err |-> "", token |-> Token("IDENTIFIER", Slice(src, cur, c)), current |-> c - 1]

\* the while loop of Tokenizer.number
RECURSIVE P_number_scan(_, _)
P_number_scan(src, c) ==
    IF c >= Len(src) THEN -1
    ELSE IF isdigit(CharAt(src, c)) THEN P_number_scan(src, c + 1) ELSE c

P_number(src, cur) ==
    LET c == P_number_scan(src, cur) IN
    IF c = -1
    THEN [err |-> "IndexError", token |-> NoToken, current |-> cur]
    ELSE [err |-> "", token |-> Token("NUMBER", Slice(src, cur, c)), current |-> c - 1]

\* Tokenizer.lookahead: TRUE when the text after the current character is thing
P_lookahead(src, cur, thing) == Slice(src, cur + 1, cur + Len(thing) + 1) = thing

\* a keyword case of the match: the keyword when the lookahead succeeds
\* (current advanced over the suffix), else an identifier from cur
P_keyword(src, cur, thing, kind, word) ==
    IF P_lookahead(src, cur, thing)
    THEN [err |-> "", token |-> Token(kind, word), current |-> cur + Len(thing)]
    ELSE P_identifier(src, cur)

P_single(cur, kind, v) == [err |-> "", token |-> Token(kind, v), current |-> cur]

\* the match statement of Tokenizer.tokenize on a non-space character
P_tokenize_match(src, cur) ==
    LET v == CharAt(src, cur) IN
    CASE v = "i" -> P_keyword(src, cur, "f", "IF", "if")
      [] v = "f" -> P_keyword(src, cur, "n", "FN", "fn")
      [] v = "e" -> P_keyword(src, cur, "lse", "ELSE", "else")
      [] v = "l" -> P_keyword(src, cur, "et", "LET", "let")
      [] v = "p" -> P_keyword(src, cur, "rint", "PRINT", "print")
      [] v = "r" -> P_keyword(src, cur, "eturn", "RETURN", "return")
      [] v \notin {"i","f","e","l","p","r"} /\ isalpha(v) -> P_identifier(src, cur)
      [] isdigit(v) -> P_number(src, cur)
      [] v = "+" -> P_single(cur, "PLUS", v)
      [] v = "-" -> P_single(cur, "MINUS", v)
      [] v = "*" -> P_single(cur, "STAR", v)
      [] v = "/" -> P_single(cur, "SLASH", v)
      [] v = "=" -> P_single(cur, "EQUAL", v)
      [] v = ";" -> P_single(cur, "SEMICOLON", v)
      [] v = "," -> P_single(cur, "COMMA", v)
      [] v = "(" -> P_single(cur, "LPAREN", v)
      [] v = ")" -> P_single(cur, "RPAREN", v)
      [] v = "{" -> P_single(cur, "LBRACE", v)
      [] v = "}" -> P_single(cur, "RBRACE", v)
      [] v = "<" -> P_single(cur, "LT", v)
      [] OTHER   -> [err |-> "Exception", token |-> NoToken, current |-> cur]

\* one iteration of the while loop of Tokenizer.tokenize
P_TokenizeStep ==
    /\ impl = "proto" /\ phase = "lex"
    /\ current < Len(source)
    /\ IF isspace(CharAt(source, current))
       THEN /\ current' = current + 1
            /\ UNCHANGED <<tokens, phase, err>>
       ELSE LET r == P_tokenize_match(source, current) IN
            IF r.err # ""
            THEN /\ phase' = "fatal" /\ err' = r.err
                 /\ UNCHANGED <<tokens, current>>
            ELSE /\ tokens' = Append(tokens, r.token)
                 /\ current' = r.current + 1
                 /\ UNCHANGED <<phase, err>>
    /\ UNCHANGED <<impl, source, ast, runVars, pureVars>>

\* the end of Tokenizer.tokenize: the loop is over, EOF is appended and the
\* list is returned to main, which hands it to the Parser
P_TokenizeEnd ==
    /\ impl = "proto" /\ phase = "lex"
    /\ current >= Len(source)
    /\ tokens' = Append(tokens, Token("EOF", ""))
    /\ phase' = "parse"
    /\ UNCHANGED <<impl, err, source, current, ast, runVars, pureVars>>

(***************************************************************************)
(* Values: Python float, int, bool and None.  A number is the rational     *)
(* n/d in lowest terms with d > 0; True is 1 and False is 0.               *)
(***************************************************************************)
Float(n)  == [t |-> "float", n |-> n, d |-> 1]
Bool(b)   == [t |-> "bool", n |-> IF b THEN 1 ELSE 0, d |-> 1]
None      == [t |-> "none", n |-> 0, d |-> 1]
EmptyMap  == [k \in {} |-> None]
Pending   == [status |-> "pending"]

Abs(n) == IF n < 0 THEN -n ELSE n

RECURSIVE Gcd(_, _)
Gcd(a, b) == IF b = 0 THEN a ELSE Gcd(b, a % b)

\* the number n/d (d # 0) of type t, in lowest terms with a positive denominator
Number(t, n, d) ==
    LET g  == Gcd(Abs(n), Abs(d))
        sn == IF d < 0 THEN -n ELSE n
    IN [t |-> t, n |-> sn \div g, d |-> Abs(d) \div g]

\* the type of a + b, a - b, a * b: float when an operand is a float, else int
ArithType(a, b) == IF a.t = "float" \/ b.t = "float" THEN "float" ELSE "int"

\* Python's binary operators on two values: [err, val]; None operands raise
\* TypeError and a zero divisor ZeroDivisionError
BinaryOp(op, a, b) ==
    IF a.t = "none" \/ b.t = "none" THEN [err |-> "TypeError", val |-> None]
    ELSE CASE op = "ADD" ->
                [err |-> "", val |-> Number(ArithType(a, b), a.n * b.d + b.n * a.d, a.d * b.d)]
           [] op = "SUB" ->
                [err |-> "", val |-> Number(ArithType(a, b), a.n * b.d - b.n * a.d, a.d * b.d)]
           [] op = "MUL" ->
                [err |-> "", val |-> Number(ArithType(a, b), a.n * b.n, a.d * b.d)]
           [] op = "DIV" ->
                IF b.n = 0 THEN [err |-> "ZeroDivisionError", val |-> None]
                ELSE [err |-> "", val |-> Number("float", a.n * b.d, a.d * b.n)]
           [] op = "LT" ->
                [err |-> "", val |-> Bool(a.n * b.d < b.n * a.d)]

\* truth of a value in `if` and `while`
Truthy(v) == v.t # "none" /\ v.n # 0

\* d[k] = v on a dict
Store(m, k, v) == (k :> v) @@ m
\* del d[k] for a key of the dict
Delete(m, k) == [x \in (DOMAIN m) \ {k} |-> m[x]]

(***************************************************************************)
(* float(token.value) on a string of decimal digits                        *)
(***************************************************************************)
DigitValue(c) ==
    CASE c = "0" -> 0 [] c = "1" -> 1 [] c = "2" -> 2 [] c = "3" -> 3
      [] c = "4" -> 4 [] c = "5" -> 5 [] c = "6" -> 6 [] c = "7" -> 7
      [] c = "8" -> 8 [] c = "9" -> 9

RECURSIVE DecimalValue(_)
DecimalValue(s) ==
    IF Len(s) = 0 THEN 0
    ELSE 10 * DecimalValue(SubSeq(s, 1, Len(s) - 1)) + DigitValue(SubSeq(s, Len(s), Len(s)))

float(s) == Float(DecimalValue(s))

(***************************************************************************)
(* AST nodes.  A node is a record tagged by kind: the prototype's          *)
(* Expression.kind / Statement.kind (src/spam.py:154-282), the extended    *)
(* node's class (src/viper/_parser.py:25-237).                             *)
(***************************************************************************)
LiteralExpression(v)       == [kind |-> "LITERAL", expr |-> v]
VariableExpression(name)   == [kind |-> "VARIABLE", name |-> name]
BinaryExpression(op, l, r) == [kind |-> "BINARY", op |-> op, lhs |-> l, rhs |-> r]
CallExpression(callee, args) == [kind |-> "CALL", callee |-> callee, args |-> args]
\* prototype: Expression(ExpressionKind.ASSIGN, BinaryExpression(ASSIGN, l, r))
P_AssignExpression(l, r)   == [kind |-> "ASSIGN", op |-> "ASSIGN", lhs |-> l, rhs |-> r]
\* extended: AssignExpression(l, r)
X_AssignExpression(l, r)   == [kind |-> "ASSIGN", lhs |-> l, rhs |-> r]

NoNode == [kind |-> "NONE"]     \* Python's None where a node is expected

P_LetStatement(e)          == [kind |-> "LET", expr |-> e]
X_LetStatement(e)          == [kind |-> "LET", initializer |-> e]
PrintStatement(e)          == [kind |-> "PRINT", expr |-> e]
IfStatement(c, t, e)       == [kind |-> "IF", condition |-> c, then_branch |-> t, else_branch |-> e]
FnStatement(name, arguments, body) ==
    [kind |-> "FN", name |-> name, arguments |-> arguments, body |-> body]
BlockStatement(body)       == [kind |-> "BLOCK", body |-> body]
ReturnStatement(e)         == [kind |-> "RETURN", expr |-> e]
ExpressionStatement(e)     == [kind |-> "EXPRESSION", expr |-> e]
WhileStatement(c, body)    == [kind |-> "WHILE", condition |-> c, body |-> body]
ForStatement(i, c, a, body) ==
    [kind |-> "FOR", initializer |-> i, condition |-> c, advancement |-> a, body |-> body]

(***************************************************************************)
(* Prototype Parser (src/spam.py:362-503).  A parsing operator takes the   *)
(* token list and returns [err, node, tokens]: the exception raised ("" if *)
(* none), the node built and the tokens left.  Where a method goes on      *)
(* after a call to the expression or statement parser, the rest of it is   *)
(* an operator of its own that takes the call's result (_next, _return).   *)
(***************************************************************************)
PR(e, node, toks) == [err |-> e, node |-> node, tokens |-> toks]

\* a faulty variant of P_precedence: STAR and SLASH no tighter than PLUS
P_precedence_flat ==
    [EQUAL |-> 1, LT |-> 2, PLUS |-> 3, MINUS |-> 3, STAR |-> 3, SLASH |-> 3,
     LPAREN |-> 8, NUMBER |-> 10]

P_precedence ==
    [EQUAL |-> 1, LT |-> 2, PLUS |-> 3, MINUS |-> 3, STAR |-> 4, SLASH |-> 4,
     LPAREN |-> 8, NUMBER |-> 10]

\* the registrations of Parser.__init__
P_prefix_parselets == {"NUMBER", "IDENTIFIER"}
P_infix_parselets  == {"PLUS", "MINUS", "STAR", "SLASH", "EQUAL", "LT", "LPAREN"}

\* a faulty variant of P_consume: the kind of the token is not checked
P_consume_any(toks, kind) ==
    IF Len(toks) = 0 THEN PR("AssertionError", NoNode, toks)
    ELSE PR("", toks[1], Tail(toks))

\* Parser.consume; kind "" is Python's None.  node is the token taken.
P_consume(toks, kind) ==
    IF Len(toks) = 0 THEN PR("AssertionError", NoNode, toks)
    ELSE IF kind # "" /\ toks[1].kind # kind THEN PR("AssertionError", NoNode, toks)
    ELSE PR("", toks[1], Tail(toks))

P_next_token_precedence(toks) ==
    IF Len(toks) > 0
    THEN IF toks[1].kind \in DOMAIN P_precedence THEN P_precedence[toks[1].kind] ELSE 0
    ELSE 0

\* Parser.match on a one-kind list; node is TRUE when the token was taken.
\* Parser.check reads tokens[0]: IndexError on an empty list.
P_match(toks, kind) ==
    IF Len(toks) = 0 THEN PR("IndexError", NoNode, toks)
    ELSE IF toks[1].kind = kind THEN PR("", TRUE, Tail(toks))
    ELSE PR("", FALSE, toks)

\* a faulty variant of P_binary_node: "=" builds an addition
P_binary_node_add(value, left, right) ==
    CASE value = "+" -> BinaryExpression("ADD", left, right)
      [] value = "-" -> BinaryExpression("SUB", left, right)
      [] value = "*" -> BinaryExpression("MUL", left, right)
      [] value = "/" -> BinaryExpression("DIV", left, right)
      [] value = "<" -> BinaryExpression("LT", left, right)
      [] value = "=" -> BinaryExpression("ADD", left, right)

\* the node BinaryOperatorParselet.parse builds from the operator's text
P_binary_node(value, left, right) ==
    CASE value = "+" -> BinaryExpression("ADD", left, right)
      [] value = "-" -> BinaryExpression("SUB", left, right)
      [] value = "*" -> BinaryExpression("MUL", left, right)
      [] value = "/" -> BinaryExpression("DIV", left, right)
      [] value = "<" -> BinaryExpression("LT", left, right)
      [] value = "=" -> P_AssignExpression(left, right)

RECURSIVE P_parse_expression(_, _)
RECURSIVE P_parse_infix(_, _, _)
RECURSIVE P_call_args(_, _)
RECURSIVE P_CallParselet(_, _)
RECURSIVE P_BinaryOperatorParselet(_, _, _)
RECURSIVE P_parse_statement(_)
RECURSIVE P_step(_, _)
RECURSIVE P_sequence(_, _, _)
RECURSIVE P_until(_, _, _, _)

\* NumberParselet.parse / NameParselet.parse
P_prefix_node(token) ==
    IF token.kind = "NUMBER"
    THEN LiteralExpression(float(token.value))
    ELSE VariableExpression(token.value)

P_parse_expression(toks, desired_precedence) ==
    LET c == P_consume(toks, "") IN
    IF c.err # "" THEN c
    ELSE IF c.node.kind \notin P_prefix_parselets THEN PR("AssertionError", NoNode, c.tokens)
    ELSE P_parse_infix(c.tokens, P_prefix_node(c.node), desired_precedence)

\* the while loop of Parser.parse_expression, once r = parselet.parse(...)
\* has returned
P_parse_infix_next(r, desired_precedence) ==
    IF r.err # "" THEN r
    ELSE P_parse_infix(r.tokens, r.node, desired_precedence)

\* the while loop of Parser.parse_expression
P_parse_infix(toks, left, desired_precedence) ==
    IF desired_precedence < P_next_token_precedence(toks)
    THEN LET c == P_consume(toks, "") IN
         IF c.node.kind \notin P_infix_parselets THEN PR("AssertionError", NoNode, c.tokens)
         ELSE P_parse_infix_next(IF c.node.kind = "LPAREN"
                                 THEN P_CallParselet(c.tokens, left)
                                 ELSE P_BinaryOperatorParselet(c.tokens, left, c.node),
                                 desired_precedence)
    ELSE PR("", left, toks)

\* BinaryOperatorParselet.parse, once r = parser.parse_expression(...) has
\* returned
P_BinaryOperatorParselet_return(r, left, token) ==
    IF r.err # "" THEN r
    ELSE PR("", P_binary_node(token.value, left, r.node), r.tokens)

P_BinaryOperatorParselet(toks, left, token) ==
    P_BinaryOperatorParselet_return(P_parse_expression(toks, P_precedence[token.kind]),
                                    left, token)

\* the while True loop of CallParselet.parse, once a = parse_expression(0)
\* has returned
P_call_args_next(a, args) ==
    IF a.err # "" THEN a
    ELSE LET m == P_match(a.tokens, "COMMA") IN
         IF m.err # "" THEN m
         ELSE IF m.node THEN P_call_args(m.tokens, Append(args, a.node))
         ELSE PR("", Append(args, a.node), m.tokens)

\* the while True loop of CallParselet.parse; node is the argument list
P_call_args(toks, args) == P_call_args_next(P_parse_expression(toks, 0), args)

\* args = []; if not match([RPAREN]): while True: ...
P_call_arguments(toks) ==
    LET m == P_match(toks, "RPAREN") IN
    IF m.err # "" THEN m
    ELSE IF m.node THEN PR("", <<>>, m.tokens)
    ELSE P_call_args(m.tokens, <<>>)

\* CallParselet.parse, once the arguments are read and RPAREN is consumed
P_CallParselet_return(r, left) ==
    IF r.err # "" THEN r
    ELSE PR("", CallExpression(left, r.node[1]), r.tokens)

\* CallParselet.parse: the closing RPAREN is consumed after the if, also
\* when match has already taken it
P_CallParselet(toks, left) ==
    P_CallParselet_return(P_sequence(<<"call_arguments", "RPAREN">>, toks, <<>>), left)

\* else_branch = None; if match([ELSE]): else_branch = parse_statement()
P_else_branch(toks) ==
    LET m == P_match(toks, "ELSE") IN
    IF m.err # "" THEN m
    ELSE IF m.node THEN P_parse_statement(m.tokens)
    ELSE PR("", NoNode, m.tokens)

\* while not match([kind]): list.append(what), once what has returned r
P_until_next(r, kind, what, list) ==
    IF r.err # "" THEN r
    ELSE P_until(kind, what, r.tokens, Append(list, r.node))

\* while not match([kind]): list.append(what): the loops of
\* parse_fn_statement and parse_block_statement; node is the list
P_until(kind, what, toks, list) ==
    LET m == P_match(toks, kind) IN
    IF m.err # "" THEN m
    ELSE IF m.node THEN PR("", list, m.tokens)
    ELSE P_until_next(P_step(what, m.tokens), kind, what, list)

\* one call of a parsing method: a token kind stands for consume(kind)
P_step(what, toks) ==
    CASE what = "expression"     -> P_parse_expression(toks, 0)
      [] what = "statement"      -> P_parse_statement(toks)
      [] what = "call_arguments" -> P_call_arguments(toks)
      [] what = "arguments"      -> P_until("RPAREN", "expression", toks, <<>>)
      [] what = "body"           -> P_until("RBRACE", "statement", toks, <<>>)
      [] what = "else_branch"    -> P_else_branch(toks)
      [] OTHER                   -> P_consume(toks, what)

\* the calls of a parsing method, once the first of them has returned r
P_sequence_next(r, steps, nodes) ==
    IF r.err # "" THEN r
    ELSE P_sequence(steps, r.tokens, Append(nodes, r.node))

\* the calls a parsing method makes one after another, the first exception
\* ending them; node is the list of what they returned
P_sequence(steps, toks, nodes) ==
    IF Len(steps) = 0 THEN PR("", nodes, toks)
    ELSE P_sequence_next(P_step(Head(steps), toks), Tail(steps), nodes)

\* the return statement of a parsing method, n being what its calls returned
P_node(method, n) ==
    CASE method = "parse_print_statement"      -> PrintStatement(n[1])
      [] method = "parse_let_statement"        -> P_LetStatement(n[1])
      [] method = "parse_return_statement"     -> ReturnStatement(n[1])
      [] method = "parse_expression_statement" -> ExpressionStatement(n[1])
      [] method = "parse_fn_statement"         -> FnStatement(n[1].value, n[3], n[5])
      [] method = "parse_if_statement"         -> IfStatement(n[2], n[4], n[5])
      [] method = "parse_block_statement"      -> BlockStatement(n[1])

\* a parsing method whose calls came to r: their exception, or its node
P_return(method, r) ==
    IF r.err # "" THEN r
    ELSE PR("", P_node(method, r.node), r.tokens)

P_parse_print_statement(toks) ==
    P_return("parse_print_statement",
             P_sequence(<<"expression", "SEMICOLON">>, toks, <<>>))

P_parse_let_statement(toks) ==
    P_return("parse_let_statement",
             P_sequence(<<"expression", "SEMICOLON">>, toks, <<>>))

P_parse_return_statement(toks) ==
    P_return("parse_return_statement",
             P_sequence(<<"expression", "SEMICOLON">>, toks, <<>>))

P_parse_expression_statement(toks) ==
    P_return("parse_expression_statement",
             P_sequence(<<"expression", "SEMICOLON">>, toks, <<>>))

P_parse_fn_statement(toks) ==
    P_return("parse_fn_statement",
             P_sequence(<<"IDENTIFIER", "LPAREN", "arguments", "LBRACE", "body">>,
                        toks, <<>>))

P_parse_if_statement(toks) ==
    P_return("parse_if_statement",
             P_sequence(<<"LPAREN", "expression", "RPAREN", "statement", "else_branch">>,
                        toks, <<>>))

P_parse_block_statement(toks) ==
    P_return("parse_block_statement", P_sequence(<<"body">>, toks, <<>>))

\* Parser.parse_statement: the first match that takes a token decides
P_parse_statement(toks) ==
    IF Len(toks) = 0 THEN PR("IndexError", NoNode, toks)
    ELSE LET k == toks[1].kind
             rest == Tail(toks)
         IN CASE k = "LET"    -> P_parse_let_statement(rest)
              [] k = "PRINT"  -> P_parse_print_statement(rest)
              [] k = "FN"     -> P_parse_fn_statement(rest)
              [] k = "IF"     -> P_parse_if_statement(rest)
              [] k = "RETURN" -> P_parse_return_statement(rest)
              [] k = "LBRACE" -> P_parse_block_statement(rest)
              [] OTHER        -> P_parse_expression_statement(toks)

\* one iteration of the while loop of Parser.parse; on an empty list the
\* loop condition's tokens[0] raises IndexError
P_ParseStep ==
    /\ impl = "proto" /\ phase = "parse"
    /\ (Len(tokens) = 0 \/ tokens[1].kind # "EOF")
    /\ LET r == P_parse_statement(tokens) IN
       /\ tokens' = r.tokens
       /\ IF r.err # ""
          THEN phase' = "fatal" /\ err' = r.err /\ UNCHANGED ast
          ELSE ast' = Append(ast, r.node) /\ UNCHANGED <<phase, err>>
    /\ UNCHANGED <<impl, lexVars, runVars, pureVars>>

\* the end of Parser.parse: EOF is next and the ast is returned to main,
\* which hands it to Interpreter.exec
P_ParseEnd ==
    /\ impl = "proto" /\ phase = "parse"
    /\ Len(tokens) > 0 /\ tokens[1].kind = "EOF"
    /\ phase' = "exec" /\ ctl' = [k |-> "exec", body |-> ast, i |-> 0]
    /\ UNCHANGED <<impl, err, tokens, ast, lexVars, pureVars,
                   locals, globals, functions, depth, out, retval, stack>>

(***************************************************************************)
(* Extended Parser (src/viper/_parser.py:246-463), in the same form as the *)
(* prototype's.                                                            *)
(***************************************************************************)
X_precedence ==
    [EQUAL |-> 1, LT |-> 2, PLUS |-> 3, MINUS |-> 3, STAR |-> 4, SLASH |-> 4,
     LPAREN |-> 8, NUMBER |-> 10]

\* the registrations of Parser.__init__
X_prefix_parselets == {"NUMBER", "IDENTIFIER"}
X_infix_parselets  == {"PLUS", "MINUS", "STAR", "SLASH", "EQUAL", "LT", "LPAREN"}

\* Parser.consume; kind "" is Python's None.  node is the token taken.
X_consume(toks, kind) ==
    IF Len(toks) = 0 THEN PR("AssertionError", NoNode, toks)
    ELSE IF kind # "" /\ toks[1].kind # kind THEN PR("AssertionError", NoNode, toks)
    ELSE PR("", toks[1], Tail(toks))

X_next_token_precedence(toks) ==
    IF Len(toks) > 0
    THEN IF toks[1].kind \in DOMAIN X_precedence THEN X_precedence[toks[1].kind] ELSE 0
    ELSE 0

\* Parser.match on a one-kind list; node is TRUE when the token was taken.
\* Parser.check reads tokens[0]: IndexError on an empty list.
X_match(toks, kind) ==
    IF Len(toks) = 0 THEN PR("IndexError", NoNode, toks)
    ELSE IF toks[1].kind = kind THEN PR("", TRUE, Tail(toks))
    ELSE PR("", FALSE, toks)

\* the node BinaryOperatorParselet.parse builds from the operator's text
X_binary_node(value, left, right) ==
    CASE value = "+" -> BinaryExpression("ADD", left, right)
      [] value = "-" -> BinaryExpression("SUB", left, right)
      [] value = "*" -> BinaryExpression("MUL", left, right)
      [] value = "/" -> BinaryExpression("DIV", left, right)
      [] value = "<" -> BinaryExpression("LT", left, right)
      [] value = "=" -> X_AssignExpression(left, right)

RECURSIVE X_parse_expression(_, _)
RECURSIVE X_parse_infix(_, _, _)
RECURSIVE X_call_args(_, _)
RECURSIVE X_CallParselet(_, _)
RECURSIVE X_BinaryOperatorParselet(_, _, _)
RECURSIVE X_parse_statement(_)
RECURSIVE X_step(_, _)
RECURSIVE X_sequence(_, _, _)
RECURSIVE X_until(_, _, _, _)

\* NumberParselet.parse / NameParselet.parse
X_prefix_node(token) ==
    IF token.kind = "NUMBER"
    THEN LiteralExpression(float(token.value))
    ELSE VariableExpression(token.value)

X_parse_expression(toks, desired_precedence) ==
    LET c == X_consume(toks, "") IN
    IF c.err # "" THEN c
    ELSE IF c.node.kind \notin X_prefix_parselets THEN PR("AssertionError", NoNode, c.tokens)
    ELSE X_parse_infix(c.tokens, X_prefix_node(c.node), desired_precedence)

\* the while loop of Parser.parse_expression, once r = parselet.parse(...)
\* has returned
X_parse_infix_next(r, desired_precedence) ==
    IF r.err # "" THEN r
    ELSE X_parse_infix(r.tokens, r.node, desired_precedence)

\* the while loop of Parser.parse_expression
X_parse_infix(toks, left, desired_precedence) ==
    IF desired_precedence < X_next_token_precedence(toks)
    THEN LET c == X_consume(toks, "") IN
         IF c.node.kind \notin X_infix_parselets THEN PR("AssertionError", NoNode, c.tokens)
         ELSE X_parse_infix_next(IF c.node.kind = "LPAREN"
                                 THEN X_CallParselet(c.tokens, left)
                                 ELSE X_BinaryOperatorParselet(c.tokens, left, c.node),
                                 desired_precedence)
    ELSE PR("", left, toks)

\* BinaryOperatorParselet.parse, once r = parser.parse_expression(...) has
\* returned
X_BinaryOperatorParselet_return(r, left, token) ==
    IF r.err # "" THEN r
    ELSE PR("", X_binary_node(token.value, left, r.node), r.tokens)

X_BinaryOperatorParselet(toks, left, token) ==
    X_BinaryOperatorParselet_return(X_parse_expression(toks, X_precedence[token.kind]),
                                    left, token)

\* the while True loop, once a = parse_expression(0) has returned, and the
\* consume(RPAREN) after it
X_call_args_next(a, args) ==
    IF a.err # "" THEN a
    ELSE LET m == X_match(a.tokens, "COMMA") IN
         IF m.err # "" THEN m
         ELSE IF m.node THEN X_call_args(m.tokens, Append(args, a.node))
         ELSE LET c == X_consume(m.tokens, "RPAREN") IN
              IF c.err # "" THEN c
              ELSE PR("", Append(args, a.node), c.tokens)

\* the while True loop of CallParselet.parse and of parse_fn_statement; node
\* is the argument list
X_call_args(toks, args) == X_call_args_next(X_parse_expression(toks, 0), args)

\* args = []; if not match([RPAREN]): while True: ...; consume(RPAREN)
\* (CallParselet.parse, and parse_fn_statement on its arguments): the
\* closing RPAREN is consumed inside the if, only when match has not taken it
X_call_arguments(toks) ==
    LET m == X_match(toks, "RPAREN") IN
    IF m.err # "" THEN m
    ELSE IF m.node THEN PR("", <<>>, m.tokens)
    ELSE X_call_args(m.tokens, <<>>)

\* CallParselet.parse, once the arguments are read
X_CallParselet_return(r, left) ==
    IF r.err # "" THEN r
    ELSE PR("", CallExpression(left, r.node), r.tokens)

X_CallParselet(toks, left) == X_CallParselet_return(X_call_arguments(toks), left)

\* else_branch = None; if match([ELSE]): else_branch = parse_statement()
X_else_branch(toks) ==
    LET m == X_match(toks, "ELSE") IN
    IF m.err # "" THEN m
    ELSE IF m.node THEN X_parse_statement(m.tokens)
    ELSE PR("", NoNode, m.tokens)

\* while not match([kind]): list.append(what), once what has returned r
X_until_next(r, kind, what, list) ==
    IF r.err # "" THEN r
    ELSE X_until(kind, what, r.tokens, Append(list, r.node))

\* while not match([kind]): list.append(what): the loop of
\* parse_block_statement; node is the list
X_until(kind, what, toks, list) ==
    LET m == X_match(toks, kind) IN
    IF m.err # "" THEN m
    ELSE IF m.node THEN PR("", list, m.tokens)
    ELSE X_until_next(X_step(what, m.tokens), kind, what, list)

\* one call of a parsing method: a token kind stands for consume(kind)
X_step(what, toks) ==
    CASE what = "expression"     -> X_parse_expression(toks, 0)
      [] what = "statement"      -> X_parse_statement(toks)
      [] what = "arguments"      -> X_call_arguments(toks)
      [] what = "body"           -> X_until("RBRACE", "statement", toks, <<>>)
      [] what = "else_branch"    -> X_else_branch(toks)
      [] OTHER                   -> X_consume(toks, what)

\* the calls of a parsing method, once the first of them has returned r
X_sequence_next(r, steps, nodes) ==
    IF r.err # "" THEN r
    ELSE X_sequence(steps, r.tokens, Append(nodes, r.node))

\* the calls a parsing method makes one after another, the first exception
\* ending them; node is the list of what they returned
X_sequence(steps, toks, nodes) ==
    IF Len(steps) = 0 THEN PR("", nodes, toks)
    ELSE X_sequence_next(X_step(Head(steps), toks), Tail(steps), nodes)

\* the return statement of a parsing method, n being what its calls returned
X_node(method, n) ==
    CASE method = "parse_print_statement"      -> PrintStatement(n[1])
      [] method = "parse_let_statement"        -> X_LetStatement(n[1])
      [] method = "parse_return_statement"     -> ReturnStatement(n[1])
      [] method = "parse_expression_statement" -> ExpressionStatement(n[1])
      [] method = "parse_fn_statement"         -> FnStatement(n[1].value, n[3], n[4])
      [] method = "parse_while_statement"      -> WhileStatement(n[2], n[4])
      [] method = "parse_for_statement"        -> ForStatement(n[3], n[5], n[7], n[9])
      [] method = "parse_if_statement"         -> IfStatement(n[2], n[4], n[5])
      [] method = "parse_block_statement"      -> BlockStatement(n[1])

\* a parsing method whose calls came to r: their exception, or its node
X_return(method, r) ==
    IF r.err # "" THEN r
    ELSE PR("", X_node(method, r.node), r.tokens)

X_parse_print_statement(toks) ==
    X_return("parse_print_statement",
             X_sequence(<<"expression", "SEMICOLON">>, toks, <<>>))

X_parse_let_statement(toks) ==
    X_return("parse_let_statement",
             X_sequence(<<"expression", "SEMICOLON">>, toks, <<>>))

X_parse_return_statement(toks) ==
    X_return("parse_return_statement",
             X_sequence(<<"expression", "SEMICOLON">>, toks, <<>>))

X_parse_expression_statement(toks) ==
    X_return("parse_expression_statement",
             X_sequence(<<"expression", "SEMICOLON">>, toks, <<>>))

X_parse_fn_statement(toks) ==
    X_return("parse_fn_statement",
             X_sequence(<<"IDENTIFIER", "LPAREN", "arguments", "statement">>, toks, <<>>))

X_parse_while_statement(toks) ==
    X_return("parse_while_statement",
             X_sequence(<<"LPAREN", "expression", "RPAREN", "statement">>, toks, <<>>))

X_parse_for_statement(toks) ==
    X_return("parse_for_statement",
             X_sequence(<<"LPAREN", "LET", "expression", "SEMICOLON", "expression",
                          "SEMICOLON", "expression", "RPAREN", "statement">>,
                        toks, <<>>))

X_parse_if_statement(toks) ==
    X_return("parse_if_statement",
             X_sequence(<<"LPAREN", "expression", "RPAREN", "statement", "else_branch">>,
                        toks, <<>>))

X_parse_block_statement(toks) ==
    X_return("parse_block_statement", X_sequence(<<"body">>, toks, <<>>))

\* Parser.parse_statement: the first match that takes a token decides
X_parse_statement(toks) ==
    IF Len(toks) = 0 THEN PR("IndexError", NoNode, toks)
    ELSE LET k == toks[1].kind
             rest == Tail(toks)
         IN CASE k = "LET"    -> X_parse_let_statement(rest)
              [] k = "PRINT"  -> X_parse_print_statement(rest)
              [] k = "FN"     -> X_parse_fn_statement(rest)
              [] k = "WHILE"  -> X_parse_while_statement(rest)
              [] k = "FOR"    -> X_parse_for_statement(rest)
              [] k = "IF"     -> X_parse_if_statement(rest)
              [] k = "RETURN" -> X_parse_return_statement(rest)
              [] k = "LBRACE" -> X_parse_block_statement(rest)
              [] OTHER        -> X_parse_expression_statement(toks)

\* one iteration of the while loop of Parser.parse; on an empty list the
\* loop condition's tokens[0] raises IndexError
X_ParseStep ==
    /\ impl = "ext" /\ phase = "parse"
    /\ (Len(tokens) = 0 \/ tokens[1].kind # "EOF")
    /\ LET r == X_parse_statement(tokens) IN
       /\ tokens' = r.tokens
       /\ IF r.err # ""
          THEN phase' = "fatal" /\ err' = r.err /\ UNCHANGED ast
          ELSE ast' = Append(ast, r.node) /\ UNCHANGED <<phase, err>>
    /\ UNCHANGED <<impl, lexVars, runVars, pureVars>>

\* the end of Parser.parse: EOF is next and the ast is returned
X_ParseEnd ==
    /\ impl = "ext" /\ phase = "parse"
    /\ Len(tokens) > 0 /\ tokens[1].kind = "EOF"
    /\ phase' = "exec" /\ ctl' = [k |-> "exec", body |-> ast, i |-> 0]
    /\ UNCHANGED <<impl, err, tokens, ast, lexVars, pureVars,
                   locals, globals, functions, depth, out, retval, stack>>

(***************************************************************************)
(* The interpreters as machines.  Python's call stack is explicit: ctl is  *)
(* what is being done now, stack the suspended activations, innermost      *)
(* last, each at the line where it waits for a result.                     *)
(*   ctl:  eval(node)       _eval(node) / node.eval is entered             *)
(*         exec_stmt(node)  exec_stmt(node) / node.exec is entered         *)
(*         exec(body, i)    the loop of exec / _exec is before body[i]     *)
(*         return(val)      the innermost call returns val                 *)
(* A fatal exception leaves ctl and stack as they were when it was raised. *)
(***************************************************************************)
MaxNest == 12       \* calls nested deeper than this raise RecursionError

Eval(node)     == [k |-> "eval", node |-> node]
ExecStmt(node) == [k |-> "exec_stmt", node |-> node]
Exec(body, i)  == [k |-> "exec", body |-> body, i |-> i]
Return(v)      == [k |-> "return", val |-> v]

\* a faulty variant of CallBody: the scope to restore is not kept
CallBody_forget(f, args, old_locals) ==
    [k |-> "call_body", f |-> f, args |-> args, old_locals |-> EmptyMap]

\* the activation of a call while the body of f runs: f, the call's argument
\* expressions and old_locals, the scope the call restores
CallBody(f, args, old_locals) ==
    [k |-> "call_body", f |-> f, args |-> args, old_locals |-> old_locals]

Top(s)     == s[Len(s)]
Pop(s)     == SubSeq(s, 1, Len(s) - 1)
Push(s, f) == Append(s, f)
\* the number of calls whose body is being executed
Nest(s)    == Cardinality({j \in 1 .. Len(s) : s[j].k = "call_body"})

\* a step that raises exception e
Fatal(e) ==
    /\ phase' = "fatal" /\ err' = e
    /\ UNCHANGED <<ctl, stack, locals, globals, functions, depth, out, retval>>

(***************************************************************************)
(* Prototype Interpreter (src/spam.py:506-573)                             *)
(***************************************************************************)
\* a step of the prototype interpreter to control c, stack s, scope l,
\* function table f and output o
P_Go(c, s, l, f, o) ==
    /\ ctl' = c /\ stack' = s /\ locals' = l /\ functions' = f /\ out' = o
    /\ UNCHANGED <<phase, err, retval, globals, depth>>

P_Running == impl = "proto" /\ phase = "exec"
P_Returning(kinds) ==
    P_Running /\ ctl.k = "return" /\ Len(stack) > 0 /\ Top(stack).k \in kinds

\* Interpreter.exec, the head of the for loop: the next statement is
\* executed, or the loop is over and None is returned
P_exec ==
    /\ P_Running /\ ctl.k = "exec"
    /\ IF ctl.i < Len(ctl.body)
       THEN P_Go(ExecStmt(ctl.body[ctl.i + 1]), Push(stack, ctl), locals, functions, out)
       ELSE P_Go(Return(None), stack, locals, functions, out)
    /\ UNCHANGED <<impl, tokens, ast, lexVars, pureVars>>

\* a faulty variant of P_exec_next: the loop goes on whatever val is
P_exec_next_all(body, i, val) == Exec(body, i + 1)

\* the for loop of Interpreter.exec after exec_stmt(body[i]) returned val:
\* it is returned when it is not None, else the loop goes on
P_exec_next(body, i, val) ==
    IF val # None THEN Return(val) ELSE Exec(body, i + 1)

\* Interpreter.exec, after exec_stmt returned
P_exec_return ==
    /\ P_Returning({"exec"})
    /\ P_Go(P_exec_next(Top(stack).body, Top(stack).i, ctl.val), Pop(stack),
            locals, functions, out)
    /\ UNCHANGED <<impl, tokens, ast, lexVars, pureVars>>

\* a faulty variant of P_exec_stmt_fallback: a block runs its statements
P_exec_stmt_fallback_block(v) ==
    IF v.kind = "BLOCK" THEN P_Go(Exec(v.body, 0), stack, locals, functions, out)
    ELSE Fatal("AssertionError")

\* the end of Interpreter.exec_stmt, reached by a statement of no kind
\* tested above (LET, BLOCK): assert False, v
P_exec_stmt_fallback(v) == Fatal("AssertionError")

\* Interpreter.exec_stmt, entered with statement ctl.node
P_exec_stmt ==
    /\ P_Running /\ ctl.k = "exec_stmt"
    /\ LET v == ctl.node IN
       CASE v.kind = "PRINT" ->
               P_Go(Eval(v.expr), Push(stack, [k |-> "print"]), locals, functions, out)
         [] v.kind = "IF" ->
               P_Go(Eval(v.condition), Push(stack, [k |-> "if", node |-> v]),
                    locals, functions, out)
         [] v.kind = "FN" ->
               P_Go(Return(None), stack, locals, Store(functions, v.name, v), out)
         [] v.kind = "RETURN" ->
               P_Go(Eval(v.expr), stack, locals, functions, out)
         [] v.kind = "EXPRESSION" ->
               P_Go(Eval(v.expr), Push(stack, [k |-> "expression"]), locals, functions, out)
         [] OTHER -> P_exec_stmt_fallback(v)
    /\ UNCHANGED <<impl, tokens, ast, lexVars, pureVars>>

\* faulty variants of P_if_next: the then-branch whatever the condition, and
\* the else-branch when the condition is false
P_if_next_then(node, val) == ExecStmt(node.then_branch)
P_if_next_else(node, val) ==
    IF Truthy(val) THEN ExecStmt(node.then_branch)
    ELSE IF node.else_branch # NoNode THEN ExecStmt(node.else_branch)
    ELSE Return(None)

\* what the IF branch of exec_stmt does with the value of the condition:
\* the then-branch is executed, or None is returned; else_branch is not read
P_if_next(node, val) ==
    IF Truthy(val) THEN ExecStmt(node.then_branch) ELSE Return(None)

\* Interpreter.exec_stmt, after _eval returned the value it waited for
P_exec_stmt_return ==
    /\ P_Returning({"print", "if", "expression"})
    /\ LET fr == Top(stack) IN
       CASE fr.k = "print" ->
               P_Go(Return(None), Pop(stack), locals, functions, Append(out, ctl.val))
         [] fr.k = "if" ->
               P_Go(P_if_next(fr.node, ctl.val), Pop(stack), locals, functions, out)
         [] fr.k = "expression" ->
               P_Go(Return(None), Pop(stack), locals, functions, out)
    /\ UNCHANGED <<impl, tokens, ast, lexVars, pureVars>>

\* the number of pairs of zip(parameters, arguments)
ZipLen(names, args) == Min(Len(names), Len(args))

\* the CALL branch of Interpreter._eval, entered
P_eval_call(expr) ==
    IF expr.callee.kind # "VARIABLE" THEN Fatal("AttributeError")
    ELSE IF expr.callee.name \notin DOMAIN functions THEN Fatal("KeyError")
    ELSE LET f == functions[expr.callee.name] IN
         IF \E j \in 1 .. Len(f.arguments) : f.arguments[j].kind # "VARIABLE"
         THEN Fatal("AttributeError")
         ELSE IF ZipLen(f.arguments, expr.args) > 0
         THEN P_Go(Eval(expr.args[1]),
                   Push(stack, [k |-> "call_args", f |-> f, args |-> expr.args,
                                i |-> 1, acc |-> EmptyMap]),
                   locals, functions, out)
         ELSE IF Nest(stack) >= MaxNest THEN Fatal("RecursionError")
         ELSE P_Go(Exec(f.body, 0), Push(stack, CallBody(f, expr.args, locals)),
                   EmptyMap, functions, out)

\* Interpreter._eval, entered with expression ctl.node
P_eval ==
    /\ P_Running /\ ctl.k = "eval"
    /\ LET expr == ctl.node IN
       CASE expr.kind = "LITERAL" ->
               P_Go(Return(expr.expr), stack, locals, functions, out)
         [] expr.kind = "VARIABLE" ->
               IF expr.name \in DOMAIN locals
               THEN P_Go(Return(locals[expr.name]), stack, locals, functions, out)
               ELSE Fatal("KeyError")
         [] expr.kind = "BINARY" /\ expr.op \in {"ADD", "SUB", "MUL", "DIV", "LT"} ->
               P_Go(Eval(expr.lhs), Push(stack, [k |-> "binary_lhs", node |-> expr]),
                    locals, functions, out)
         [] expr.kind = "CALL" -> P_eval_call(expr)
         [] OTHER -> Fatal("AssertionError")
    /\ UNCHANGED <<impl, tokens, ast, lexVars, pureVars>>

\* the dict comprehension of the CALL branch after argument fr.i was
\* evaluated: the next argument, or the swap of the scope and the body
P_eval_call_args(fr) ==
    LET acc == Store(fr.acc, fr.f.arguments[fr.i].name, ctl.val) IN
    IF fr.i < ZipLen(fr.f.arguments, fr.args)
    THEN P_Go(Eval(fr.args[fr.i + 1]),
              Push(Pop(stack), [fr EXCEPT !.i = @ + 1, !.acc = acc]),
              locals, functions, out)
    ELSE IF Nest(stack) >= MaxNest THEN Fatal("RecursionError")
    ELSE P_Go(Exec(fr.f.body, 0), Push(Pop(stack), CallBody(fr.f, fr.args, locals)),
              acc, functions, out)

\* a faulty variant of P_eval_binary: SUB adds
P_eval_binary_add(kind, lhs, rhs) ==
    CASE kind = "ADD" -> BinaryOp("ADD", lhs, rhs)
      [] kind = "SUB" -> BinaryOp("ADD", lhs, rhs)
      [] kind = "MUL" -> BinaryOp("MUL", lhs, rhs)
      [] kind = "DIV" -> BinaryOp("DIV", lhs, rhs)
      [] kind = "LT"  -> BinaryOp("LT", lhs, rhs)

\* the BINARY branch of Interpreter._eval on the values of the operands
P_eval_binary(kind, lhs, rhs) ==
    CASE kind = "ADD" -> BinaryOp("ADD", lhs, rhs)
      [] kind = "SUB" -> BinaryOp("SUB", lhs, rhs)
      [] kind = "MUL" -> BinaryOp("MUL", lhs, rhs)
      [] kind = "DIV" -> BinaryOp("DIV", lhs, rhs)
      [] kind = "LT"  -> BinaryOp("LT", lhs, rhs)

\* Interpreter._eval, after the call it waited for returned
P_eval_return ==
    /\ P_Returning({"binary_lhs", "binary_rhs", "call_args", "call_body"})
    /\ LET fr == Top(stack) IN
       CASE fr.k = "binary_lhs" ->
               P_Go(Eval(fr.node.rhs),
                    Push(Pop(stack), [k |-> "binary_rhs", node |-> fr.node, lhs |-> ctl.val]),
                    locals, functions, out)
         [] fr.k = "binary_rhs" ->
               LET r == P_eval_binary(fr.node.op, fr.lhs, ctl.val) IN
               IF r.err # "" THEN Fatal(r.err)
               ELSE P_Go(Return(r.val), Pop(stack), locals, functions, out)
         [] fr.k = "call_args" -> P_eval_call_args(fr)
         [] fr.k = "call_body" ->
               P_Go(Return(ctl.val), Pop(stack), fr.old_locals, functions, out)
    /\ UNCHANGED <<impl, tokens, ast, lexVars, pureVars>>

\* main: interpreter.exec(ast) returned
P_Finish ==
    /\ P_Running /\ ctl.k = "return" /\ Len(stack) = 0
    /\ phase' = "done" /\ retval' = ctl.val
    /\ UNCHANGED <<impl, err, tokens, ast, lexVars, pureVars,
                   ctl, stack, locals, globals, functions, depth, out>>

(***************************************************************************)
(* Extended Interpreter (src/viper/interpreter.py) and the eval / exec     *)
(* methods of the nodes (src/viper/_parser.py:24-236)                      *)
(***************************************************************************)
\* a step of the extended interpreter to control c, stack s, dicts l and g,
\* depth d, function table f and output o
X_Go(c, s, l, g, d, f, o) ==
    /\ ctl' = c /\ stack' = s /\ locals' = l /\ globals' = g /\ depth' = d
    /\ functions' = f /\ out' = o
    /\ UNCHANGED <<phase, err, retval>>

\* a step that changes the control only
X_Ctl(c, s) == X_Go(c, s, locals, globals, depth, functions, out)

X_Running == impl = "ext" /\ phase = "exec"
X_Returning(kinds) ==
    X_Running /\ ctl.k = "return" /\ Len(stack) > 0 /\ Top(stack).k \in kinds

\* Interpreter._exec, the head of the for loop
X__exec ==
    /\ X_Running /\ ctl.k = "exec"
    /\ IF ctl.i < Len(ctl.body)
       THEN X_Ctl(ExecStmt(ctl.body[ctl.i + 1]), Push(stack, ctl))
       ELSE X_Ctl(Return(None), stack)
    /\ UNCHANGED <<impl, tokens, ast, lexVars, pureVars>>

\* the for loop of Interpreter._exec after body[i].exec returned val
X__exec_next(body, i, val) ==
    IF val # None THEN Return(val) ELSE Exec(body, i + 1)

\* Interpreter._exec, after stmt.exec returned
X__exec_return ==
    /\ X_Returning({"exec"})
    /\ X_Ctl(X__exec_next(Top(stack).body, Top(stack).i, ctl.val), Pop(stack))
    /\ UNCHANGED <<impl, tokens, ast, lexVars, pureVars>>

\* a faulty variant of X_BlockStatement_exec: no increment on entry
X_BlockStatement_exec_flat(stmt) ==
    X_Go(Exec(stmt.body, 0), Push(stack, [k |-> "block"]),
         locals, globals, depth, functions, out)

\* BlockStatement.exec, entered
X_BlockStatement_exec(stmt) ==
    X_Go(Exec(stmt.body, 0), Push(stack, [k |-> "block"]),
         locals, globals, depth + 1, functions, out)

\* a faulty variant of X_BlockStatement_exec_return: the block had a scope
\* of its own, dropped on the way out
X_BlockStatement_exec_return_scoped(val) ==
    X_Go(Return(val), Pop(stack), EmptyMap, globals, depth - 1, functions, out)

\* BlockStatement.exec, once interpreter._exec(self.body) has returned val
X_BlockStatement_exec_return(val) ==
    X_Go(Return(val), Pop(stack), locals, globals, depth - 1, functions, out)

\* ForStatement.exec, entered: the asserts and the initializer
X_ForStatement_exec(stmt) ==
    IF stmt.initializer.kind # "ASSIGN" THEN Fatal("AssertionError")
    ELSE IF stmt.initializer.lhs.kind # "VARIABLE" THEN Fatal("AssertionError")
    ELSE X_Ctl(Eval(stmt.initializer), Push(stack, [k |-> "for_init", node |-> stmt]))

\* stmt.exec(interpreter), entered, by the class of the statement
X_exec ==
    /\ X_Running /\ ctl.k = "exec_stmt"
    /\ LET stmt == ctl.node IN
       CASE stmt.kind = "LET" ->
               X_Ctl(Eval(stmt.initializer), Push(stack, [k |-> "let"]))
         [] stmt.kind = "PRINT" ->
               X_Ctl(Eval(stmt.expr), Push(stack, [k |-> "print"]))
         [] stmt.kind = "IF" ->
               X_Ctl(Eval(stmt.condition), Push(stack, [k |-> "if", node |-> stmt]))
         [] stmt.kind = "FN" ->
               X_Go(Return(None), stack, locals, globals, depth,
                    Store(functions, stmt.name, stmt), out)
         [] stmt.kind = "BLOCK" -> X_BlockStatement_exec(stmt)
         [] stmt.kind = "RETURN" -> X_Ctl(Eval(stmt.expr), stack)
         [] stmt.kind = "WHILE" ->
               X_Ctl(Eval(stmt.condition), Push(stack, [k |-> "while_cond", node |-> stmt]))
         [] stmt.kind = "FOR" -> X_ForStatement_exec(stmt)
         [] stmt.kind = "EXPRESSION" ->
               X_Ctl(Eval(stmt.expr), Push(stack, [k |-> "expression"]))
    /\ UNCHANGED <<impl, tokens, ast, lexVars, pureVars>>

\* what IfStatement.exec does with the value of the condition
X_if_next(node, val) ==
    IF Truthy(val) THEN ExecStmt(node.then_branch)
    ELSE IF node.else_branch # NoNode THEN ExecStmt(node.else_branch)
    ELSE Return(None)

\* a faulty variant of X_for_delete: the loop variable is kept
X_for_delete_skip(node) == X_Ctl(Return(None), Pop(stack))

\* the end of ForStatement.exec: the loop variable is deleted from the dict
\* the current depth selects
X_for_delete(node) ==
    LET name == node.initializer.lhs.name IN
    IF depth > 0
    THEN IF name \in DOMAIN locals
         THEN X_Go(Return(None), Pop(stack), Delete(locals, name), globals, depth,
                   functions, out)
         ELSE Fatal("KeyError")
    ELSE IF name \in DOMAIN globals
         THEN X_Go(Return(None), Pop(stack), locals, Delete(globals, name), depth,
                   functions, out)
         ELSE Fatal("KeyError")

\* a faulty variant of X_while_body_return: a result of the body ends the
\* loop and is returned
X_while_body_return_result(node) ==
    IF ctl.val # None THEN X_Ctl(Return(ctl.val), Pop(stack))
    ELSE X_Ctl(Eval(node.condition),
               Push(Pop(stack), [k |-> "while_cond", node |-> node]))

\* WhileStatement.exec, after self.body.exec returned: what it returned is
\* dropped and the condition is evaluated again
X_while_body_return(node) ==
    X_Ctl(Eval(node.condition),
          Push(Pop(stack), [k |-> "while_cond", node |-> node]))

\* stmt.exec(interpreter), after the eval / exec it waited for returned
X_exec_return ==
    /\ X_Returning({"let", "print", "if", "block", "expression", "while_cond",
                    "while_body", "for_init", "for_cond", "for_body", "for_adv"})
    /\ LET fr == Top(stack) IN
       CASE fr.k \in {"let", "expression"} -> X_Ctl(Return(None), Pop(stack))
         [] fr.k = "print" ->
               X_Go(Return(None), Pop(stack), locals, globals, depth, functions,
                    Append(out, ctl.val))
         [] fr.k = "if" -> X_Ctl(X_if_next(fr.node, ctl.val), Pop(stack))
         [] fr.k = "block" -> X_BlockStatement_exec_return(ctl.val)
         [] fr.k = "while_cond" ->
               IF Truthy(ctl.val)
               THEN X_Ctl(ExecStmt(fr.node.body),
                          Push(Pop(stack), [k |-> "while_body", node |-> fr.node]))
               ELSE X_Ctl(Return(None), Pop(stack))
         [] fr.k = "while_body" -> X_while_body_return(fr.node)
         [] fr.k \in {"for_init", "for_adv"} ->
               X_Ctl(Eval(fr.node.condition),
                     Push(Pop(stack), [k |-> "for_cond", node |-> fr.node]))
         [] fr.k = "for_cond" ->
               IF Truthy(ctl.val)
               THEN X_Ctl(ExecStmt(fr.node.body),
                          Push(Pop(stack), [k |-> "for_body", node |-> fr.node]))
               ELSE X_for_delete(fr.node)
         [] fr.k = "for_body" ->
               X_Ctl(Eval(fr.node.advancement),
                     Push(Pop(stack), [k |-> "for_adv", node |-> fr.node]))
    /\ UNCHANGED <<impl, tokens, ast, lexVars, pureVars>>

\* a faulty variant of X_resolve: no fallback to globals
X_resolve_locals(name) ==
    IF name \in DOMAIN locals THEN X_Ctl(Return(locals[name]), stack)
    ELSE Fatal("Exception")

\* Interpreter.resolve, called by VariableExpression.eval
X_resolve(name) ==
    IF name \in DOMAIN locals THEN X_Ctl(Return(locals[name]), stack)
    ELSE IF name \in DOMAIN globals THEN X_Ctl(Return(globals[name]), stack)
    ELSE Fatal("Exception")

\* CallExpression.eval, entered
X_CallExpression_eval(expr) ==
    IF expr.callee.kind # "VARIABLE" THEN Fatal("AssertionError")
    ELSE IF expr.callee.name \notin DOMAIN functions THEN Fatal("KeyError")
    ELSE LET f == functions[expr.callee.name] IN
         IF \E j \in 1 .. Len(f.arguments) : f.arguments[j].kind # "VARIABLE"
         THEN Fatal("AttributeError")
         ELSE IF ZipLen(f.arguments, expr.args) > 0
         THEN X_Ctl(Eval(expr.args[1]),
                    Push(stack, [k |-> "call_args", f |-> f, args |-> expr.args,
                                 i |-> 1, acc |-> EmptyMap]))
         ELSE IF Nest(stack) >= MaxNest THEN Fatal("RecursionError")
         ELSE X_Go(ExecStmt(f.body), Push(stack, CallBody(f, expr.args, locals)),
                   EmptyMap, globals, depth, functions, out)

\* a faulty variant of X_assign_target: globals at every depth
X_assign_target_globals(d) == "globals"

\* the dict AssignExpression.eval writes to: selected by the depth alone
X_assign_target(d) == IF d > 0 THEN "locals" ELSE "globals"

\* AssignExpression.eval, entered: the assert, the test of the depth and
\* the evaluation of the right-hand side
X_AssignExpression_eval(expr) ==
    IF expr.lhs.kind # "VARIABLE" THEN Fatal("AssertionError")
    ELSE X_Ctl(Eval(expr.rhs),
               Push(stack, [k |-> "assign", name |-> expr.lhs.name,
                            target |-> X_assign_target(depth)]))

\* node.eval(interpreter), entered, by the class of the node
X_eval ==
    /\ X_Running /\ ctl.k = "eval"
    /\ LET expr == ctl.node IN
       CASE expr.kind = "LITERAL" -> X_Ctl(Return(expr.expr), stack)
         [] expr.kind = "VARIABLE" -> X_resolve(expr.name)
         [] expr.kind = "BINARY" ->
               X_Ctl(Eval(expr.lhs), Push(stack, [k |-> "binary_lhs", node |-> expr]))
         [] expr.kind = "CALL" -> X_CallExpression_eval(expr)
         [] expr.kind = "ASSIGN" -> X_AssignExpression_eval(expr)
    /\ UNCHANGED <<impl, tokens, ast, lexVars, pureVars>>

\* the dict comprehension of CallExpression.eval after argument fr.i was
\* evaluated.  old_locals refers to the caller's dict, so it holds what the
\* evaluation of the arguments wrote to it.
X_eval_call_args(fr) ==
    LET acc == Store(fr.acc, fr.f.arguments[fr.i].name, ctl.val) IN
    IF fr.i < ZipLen(fr.f.arguments, fr.args)
    THEN X_Ctl(Eval(fr.args[fr.i + 1]),
               Push(Pop(stack), [fr EXCEPT !.i = @ + 1, !.acc = acc]))
    ELSE IF Nest(stack) >= MaxNest THEN Fatal("RecursionError")
    ELSE X_Go(ExecStmt(fr.f.body), Push(Pop(stack), CallBody(fr.f, fr.args, locals)),
              acc, globals, depth, functions, out)

\* the store of AssignExpression.eval; the expression's value is None
X_assign_store(fr) ==
    IF fr.target = "locals"
    THEN X_Go(Return(None), Pop(stack), Store(locals, fr.name, ctl.val), globals, depth,
              functions, out)
    ELSE X_Go(Return(None), Pop(stack), locals, Store(globals, fr.name, ctl.val), depth,
              functions, out)

\* BinaryExpression.eval on the values of the operands; no case of the
\* match gives None
X_BinaryExpression_eval(kind, lhs, rhs) ==
    CASE kind = "ADD" -> BinaryOp("ADD", lhs, rhs)
      [] kind = "SUB" -> BinaryOp("SUB", lhs, rhs)
      [] kind = "MUL" -> BinaryOp("MUL", lhs, rhs)
      [] kind = "DIV" -> BinaryOp("DIV", lhs, rhs)
      [] kind = "LT"  -> BinaryOp("LT", lhs, rhs)
      [] OTHER -> [err |-> "", val |-> None]

\* node.eval(interpreter), after the eval / exec it waited for returned
X_eval_return ==
    /\ X_Returning({"binary_lhs", "binary_rhs", "call_args", "call_body", "assign"})
    /\ LET fr == Top(stack) IN
       CASE fr.k = "binary_lhs" ->
               X_Ctl(Eval(fr.node.rhs),
                     Push(Pop(stack), [k |-> "binary_rhs", node |-> fr.node, lhs |-> ctl.val]))
         [] fr.k = "binary_rhs" ->
               LET r == X_BinaryExpression_eval(fr.node.op, fr.lhs, ctl.val) IN
               IF r.err # "" THEN Fatal(r.err)
               ELSE X_Ctl(Return(r.val), Pop(stack))
         [] fr.k = "call_args" -> X_eval_call_args(fr)
         [] fr.k = "call_body" ->
               X_Go(Return(ctl.val), Pop(stack), fr.old_locals, globals, depth,
                    functions, out)
         [] fr.k = "assign" -> X_assign_store(fr)
    /\ UNCHANGED <<impl, tokens, ast, lexVars, pureVars>>

\* Interpreter._exec(ast) returned to its caller
X_Finish ==
    /\ X_Running /\ ctl.k = "return" /\ Len(stack) = 0
    /\ phase' = "done" /\ retval' = ctl.val
    /\ UNCHANGED <<impl, err, tokens, ast, lexVars, pureVars,
                   ctl, stack, locals, globals, functions, depth, out>>

(***************************************************************************)
(* Spec: the two pipelines on a set of programs.                           *)
(*   prototype: main() (src/spam.py:576-582) on a source text: Tokenizer,  *)
(*              Parser, Interpreter({}, {}).exec                           *)
(*   extended:  Parser(tokens).parse() and Interpreter(globals, locals,    *)
(*              {}, depth)._exec on a token list.  viper.tokenizer is not  *)
(*              part of the sources: a program is written as its tokens'   *)
(*              texts, separated by single spaces.                         *)
(***************************************************************************)
MaxDepth0 == 1      \* largest depth an extended Interpreter is constructed with

\* the embedded program (spam.source after textwrap.dedent)
Fib == "\nfn fib(n) {\n    if (n < 2) return n;\n    return fib(n-1)+fib(n-2);\n}\nprint fib(10);\n"

\* prototype programs with a Let statement or an = expression
P_LetPrograms ==
    {"let x = 1;", "let x;", "let 1 + 2;", "x = 1;", "x = y + 1;", "1 + x = 2;",
     "print x = 1;", "return x = 1;", "print 7; let x = 1;", "print 7; x = 1;",
     "fn f(a) { return a; } let y = f(1);", "fn f(a) { print a; } f(1); a = f(2);"}

\* prototype programs with an if whose condition is false
P_IfPrograms ==
    {"if (1 < 0) print 1; else print 2; print 3;",
     "if (0) print 1; else print 2; ",
     "if (2 < 1) return 1; else return 2; print 3;",
     "if (1 - 1) print 1; print 3;",
     "fn f(a) { print a; return 0; } if (f(7)) print 1; else print 2; print 3;",
     "fn g(a) { if (a) return 1; else return 2; } print g(0); print g(5);",
     "if (1 < 2) print 1; else print 2; print 3;"}

\* prototype programs calling f(a b) with one argument
P_FewerArgsPrograms ==
    {"fn f(a b) { return b; } print f(1);",
     "fn f(a b) { print b; } f(1);",
     "fn f(a b) { return a + b; } print f(1);",
     "fn f(a b) { return b; } fn g(b) { return f(1); } print g(5);",
     "fn f(a b) { print b; } fn g(b) { print b; f(1); } g(5);"}

P_OtherPrograms ==
    {"fn f(a b) { return a; } print f(1);",
     "fn f(a b) { return a - b; } print f(5 3);",
     "fn f(a) { return a * 2; } print f(1, 2);",
     "print 1 + 2 * 3; print 7 / 2; print 1 / 0; print 5;",
     "print g(1);", "print x;", "{ print 1; } "}

\* prototype programs with a call of no, one and two arguments
P_CallPrograms ==
    {"f();", "f(a, b);", "f(1);", "print f(1, 2) + 1;", "f());",
     "fn f() { print 1; } f();"}

\* prototype programs declaring a function of two parameters
P_FnPrograms ==
    {"fn f(a, b) { return a; }",
     "fn f(a, b) { return a; } print f(1, 2);",
     "fn f(a b) { return b; }",
     "fn f(a b) { return b; } print f(1, 2);",
     "fn f(a + b) { return 1; } print f(1);"}

\* prototype programs with nested calls, one of them aborting in the callee
P_ScopePrograms ==
    {"fn f(a) { return a + 1; } fn g(a) { return f(a + 1) + a; } print g(1);",
     "fn f(a) { print zz; } fn g(b) { f(1); print b; } g(5);",
     "fn f(a) { print a; } fn g(b) { f(1); print b; print a; } g(5);"}

\* prototype programs with statements after a return
P_SequencePrograms ==
    {"print 1; return 2; print 3;",
     "print 1; print 2;",
     "fn f(a) { print a; return a; print 9; fn g(b) { return 1; } } print f(1); print g(2);",
     "fn f(a) { print a; } return f(1); print 2; return 0; print 3;"}

\* prototype programs whose execution reaches a block
P_BlockReachedPrograms ==
    {"print 0; { print 1; } print 2;",
     "if (1) { print 1; } print 2;",
     "print 0; if (0 < 1) { x = 1; print x; } else print 3; print 2;",
     "fn f(a) { print a; { print 5; return 6; } return 1; } print f(1); print 2;",
     "{ } print 2;",
     "{ fn g(a) { return a; } } print g(1);"}

\* prototype programs with a block that is not reached
P_BlockSkippedPrograms ==
    {"if (0) { print 1; } print 2;",
     "if (1) print 3; else { print 1; } print 2;",
     "return 4; { print 1; }"}

P_Programs ==
    {Fib} \cup P_LetPrograms \cup P_IfPrograms \cup P_FewerArgsPrograms \cup P_OtherPrograms
        \cup P_CallPrograms \cup P_FnPrograms \cup P_ScopePrograms \cup P_SequencePrograms
        \cup P_BlockReachedPrograms \cup P_BlockSkippedPrograms

\* extended programs: a write in a nested block, inside a call, at depth 0
X_WritePrograms ==
    {"let x = 1 ; { x = 2 ; } print x ;",
     "let x = 1 ; { { x = 2 ; } x = 3 ; } print x ;",
     "let x = 1 ; fn f ( ) { x = 2 ; print x ; } f ( ) ; print x ;",
     "let x = 1 ; fn f ( ) x = 2 ; f ( ) ; print x ;",
     "x = 3 ; print x ;",
     "let x = 1 ; if ( x ) { x = 2 ; } else x = 3 ; print x ;",
     "let x = 1 ; if ( 0 ) { x = 2 ; } else x = 3 ; print x ;",
     "let x = 1 ; { for ( let i = 0 ; i < 2 ; i = i + 1 ) x = x + i ; print x ; } print x ;",
     "let n = 2 ; while ( 0 < n ) { print n ; n = n - 1 ; }",
     "let n = 2 ; while ( 0 < n ) n = n - 1 ; print n ;"}

\* extended programs with the for loop over 0, 1, 2
X_ForPrograms ==
    {"for ( let i = 0 ; i < 3 ; i = i + 1 ) { print i ; }",
     "for ( let i = 0 ; i < 3 ; i = i + 1 ) { print i ; } print i ;",
     "for ( let i = 0 ; i < 3 ; i = i + 1 ) { print i ; } print 7 ; let y = i + 1 ; print 8 ;"}

\* extended programs calling f(a, b) with one argument
X_FewerArgsPrograms ==
    {"fn f ( a , b ) { return b ; } print f ( 1 ) ;",
     "fn f ( a , b ) { print b ; } f ( 1 ) ;",
     "fn f ( a , b ) { return a + b ; } print f ( 1 ) ;",
     "fn f ( a , b ) return b ; fn g ( b ) { return f ( 1 ) ; } print g ( 5 ) ;",
     "fn f ( a , b ) { print b ; } fn g ( b ) { print b ; f ( 1 ) ; } g ( 5 ) ;"}

X_OtherPrograms ==
    {"fn f ( a , b ) { return a ; } print f ( 1 ) ;",
     "fn fib ( n ) { if ( n < 2 ) return n ; return fib ( n - 1 ) + fib ( n - 2 ) ; } print fib ( 6 ) ;",
     "print 1 + 2 * 3 ; print 7 / 2 ; print 1 / 0 ; print 5 ;",
     "print g ( 1 ) ;", "print y ;", "return 4 ; print 1 ;"}

\* extended programs whose callee writes names the caller binds, calls
\* itself, or aborts
X_ScopePrograms ==
    {"fn f ( a ) { b = a ; a = 3 ; return b ; } print f ( 1 ) ; print b ;",
     "fn f ( a ) { b = a ; return b ; } print f ( 1 ) ; print a ;",
     "fn c ( n ) { if ( n < 1 ) return 0 ; let m = n ; let r = c ( n - 1 ) ; return m + r ; } print c ( 2 ) ;",
     "fn f ( a ) { print a ; print zz ; } fn g ( b ) { f ( 1 ) ; } g ( 5 ) ;",
     "fn f ( a ) { for ( let i = 0 ; i < 1 ; i = i + 1 ) b = i ; return b ; } { let i = 4 ; print f ( 1 ) ; print i ; }"}

\* extended programs that return out of nested blocks and loop over blocks
X_DepthPrograms ==
    {"fn f ( n ) { { if ( n ) { return n ; } } return 0 ; } print f ( 1 ) ; print f ( 0 ) ;",
     "{ { return 4 ; } print 1 ; } print 2 ;",
     "{ for ( let i = 0 ; i < 2 ; i = i + 1 ) { { print i ; } } print 9 ; }",
     "{ { print zz ; } } print 1 ;"}

\* extended programs with a return inside the body of a while loop
X_WhilePrograms ==
    {"fn f ( n ) { while ( 0 < n ) { n = n - 1 ; return 7 ; } } print f ( 2 ) ;",
     "fn f ( n ) { while ( 0 < n ) { n = n - 1 ; return 7 ; } return 8 ; } print f ( 2 ) ;",
     "let n = 2 ; while ( 0 < n ) { n = n - 1 ; return 7 ; print 1 ; } print n ;",
     "while ( 0 ) print 1 ; print 2 ;",
     "fn f ( n ) { while ( n ) { n = n - 1 ; print n / n ; } } print f ( 2 ) ;"}

\* extended programs with statements after a return
X_SequencePrograms ==
    {"print 1 ; return 2 ; print 3 ;",
     "{ print 1 ; return 2 ; y = 5 ; } print 3 ;",
     "fn f ( a ) { print a ; return a ; y = 5 ; fn g ( b ) return 1 ; } print f ( 1 ) ; print g ( 2 ) ;",
     "fn f ( a ) { print a ; } return f ( 1 ) ; print 2 ; return 0 ; print 3 ;"}

X_Programs ==
    X_WritePrograms \cup X_ForPrograms \cup X_FewerArgsPrograms \cup X_OtherPrograms
        \cup X_ScopePrograms \cup X_DepthPrograms \cup X_WhilePrograms
        \cup X_SequencePrograms

\* the dicts an extended Interpreter is constructed with
X_Globals0 == {EmptyMap, ("b" :> Float(9)) @@ ("x" :> Float(7))}
X_Locals0  == {EmptyMap, ("b" :> Float(8)), ("i" :> Float(5))}

\* the words of a text: the maximal runs of characters other than " "
RECURSIVE WordEnd(_, _)
WordEnd(s, k) == IF k > Len(s) \/ SubSeq(s, k, k) = " " THEN k ELSE WordEnd(s, k + 1)

RECURSIVE Words(_)
Words(s) ==
    IF Len(s) = 0 THEN <<>>
    ELSE LET k == WordEnd(s, 1) IN
         (IF k = 1 THEN <<>> ELSE <<SubSeq(s, 1, k - 1)>>) \o Words(SubSeq(s, k + 1, Len(s)))

\* the token of a word: the kinds of viper.tokenizer.TokenKind the extended
\* Parser names
X_Token(w) ==
    CASE w = "print"  -> Token("PRINT", w)
      [] w = "let"    -> Token("LET", w)
      [] w = "if"     -> Token("IF", w)
      [] w = "else"   -> Token("ELSE", w)
      [] w = "fn"     -> Token("FN", w)
      [] w = "return" -> Token("RETURN", w)
      [] w = "while"  -> Token("WHILE", w)
      [] w = "for"    -> Token("FOR", w)
      [] w = "+" -> Token("PLUS", w)
      [] w = "-" -> Token("MINUS", w)
      [] w = "*" -> Token("STAR", w)
      [] w = "/" -> Token("SLASH", w)
      [] w = "=" -> Token("EQUAL", w)
      [] w = ";" -> Token("SEMICOLON", w)
      [] w = "," -> Token("COMMA", w)
      [] w = "(" -> Token("LPAREN", w)
      [] w = ")" -> Token("RPAREN", w)
      [] w = "{" -> Token("LBRACE", w)
      [] w = "}" -> Token("RBRACE", w)
      [] w = "<" -> Token("LT", w)
      [] OTHER -> IF isdigit(SubSeq(w, 1, 1)) THEN Token("NUMBER", w)
                  ELSE Token("IDENTIFIER", w)

X_Tokens(text) ==
    LET ws == Words(text) IN
    [k \in 1 .. Len(ws) |-> X_Token(ws[k])] \o <<Token("EOF", "")>>

\* what every run starts with
InitRun ==
    /\ err = "" /\ ast = <<>> /\ ctl = [k |-> "idle"] /\ stack = <<>>
    /\ functions = EmptyMap /\ out = <<>> /\ retval = None
    /\ pres = Pending /\ xres = Pending

Input(text, l, g, d) == [text |-> text, locals0 |-> l, globals0 |-> g, depth0 |-> d]

InitP ==
    /\ impl = "proto" /\ phase = "lex"
    /\ source \in P_Programs
    /\ current = 0 /\ tokens = <<>>
    /\ locals = EmptyMap /\ globals = EmptyMap /\ depth = 0
    /\ input = Input(source, EmptyMap, EmptyMap, 0)
    /\ InitRun

InitX ==
    /\ impl = "ext" /\ phase = "parse"
    /\ source \in X_Programs
    /\ current = 0 /\ tokens = X_Tokens(source)
    /\ locals \in X_Locals0 /\ globals \in X_Globals0 /\ depth \in 0 .. MaxDepth0
    /\ input = Input(source, locals, globals, depth)
    /\ InitRun

Init == InitP \/ InitX

Next ==
    \/ P_TokenizeStep \/ P_TokenizeEnd
    \/ P_ParseStep \/ P_ParseEnd
    \/ P_exec \/ P_exec_return \/ P_exec_stmt \/ P_exec_stmt_return
    \/ P_eval \/ P_eval_return \/ P_Finish
    \/ X_ParseStep \/ X_ParseEnd
    \/ X__exec \/ X__exec_return \/ X_exec \/ X_exec_return
    \/ X_eval \/ X_eval_return \/ X_Finish

Spec == Init /\ [][Next]_vars

\* C1: running the prototype pipeline on the embedded Fibonacci program
\* prints exactly one value, fib(10) = 55 as the float 55.0, and nothing
\* else, and then finishes without a fatal error
C1_FibPrints55 ==
    (impl = "proto" /\ source = Fib) =>
        /\ phase # "fatal"
        /\ out \in {<<>>, <<Float(55)>>}
        /\ (phase = "done" => out = <<Float(55)>> /\ retval = None)

C1_Witness ==
    /\ impl = "proto" /\ source = Fib /\ input.locals0 = EmptyMap
    /\ phase = "done" /\ out = <<Float(55)>> /\ retval = None
    /\ DOMAIN functions = {"fib"}

\* C5: in the extended runtime the target of a write depends only on the
\* current depth: an Assign that stores while depth > 0 binds the name in
\* locals and leaves globals unchanged, an Assign that stores at depth 0
\* binds the name in globals, and no step taken while depth > 0 changes
\* globals
C5_WriteTargetByDepth ==
    [][X_Running =>
        /\ (depth > 0 => globals' = globals)
        /\ (X_Returning({"assign"}) /\ depth > 0 =>
               /\ locals' = Store(locals, Top(stack).name, ctl.val)
               /\ globals' = globals)
        /\ (X_Returning({"assign"}) /\ depth = 0 =>
               /\ globals' = Store(globals, Top(stack).name, ctl.val)
               /\ locals' = locals)]_vars

\* a global x keeps its value while a local x written in a block shadows it
C5_Witness ==
    /\ impl = "ext" /\ phase = "exec" /\ depth > 0
    /\ input.globals0 = EmptyMap /\ input.locals0 = EmptyMap /\ input.depth0 = 0
    /\ "x" \in DOMAIN globals /\ "x" \in DOMAIN locals
    /\ globals["x"] = Float(1) /\ locals["x"] = Float(2)

\* the loop of C6 alone, and the programs that start with it
X_ForLoop == "for ( let i = 0 ; i < 3 ; i = i + 1 ) { print i ; }"
Printed012 == <<Float(0), Float(1), Float(2)>>
IsPrefix(a, b) == Len(a) <= Len(b) /\ a = SubSeq(b, 1, Len(a))

\* the index of the top-level statement the interpreter is at; Len(ast)
\* when the sequence is over
TopIndex ==
    IF Len(stack) > 0 THEN stack[1].i
    ELSE IF ctl.k = "exec" THEN ctl.i ELSE Len(ast)

\* the runs C6 is about: the loop is the first statement of the program, the
\* interpreter starts at depth 0 and i is not bound in locals
C6_Run ==
    /\ impl = "ext" /\ source \in X_ForPrograms /\ ctl.k # "idle"
    /\ input.depth0 = 0 /\ "i" \notin DOMAIN input.locals0

\* C6: executing `for (let i = 0; i < 3; i = i + 1) { print i; }` at top
\* level (depth 0, i not bound in locals) prints 0, 1, 2 in that order and
\* nothing else, then removes i from globals; any read of i after the loop
\* aborts with the 'not defined' failure
C6_ForLoop ==
    /\ [](C6_Run =>
            IF TopIndex = 0
            THEN /\ phase = "exec"
                 /\ IsPrefix(out, Printed012)
                 /\ (Len(stack) = 1 /\ ctl.k = "return" =>
                        out = Printed012 /\ "i" \notin DOMAIN globals)
            ELSE /\ IsPrefix(Printed012, out)
                 /\ "i" \notin DOMAIN globals
                 /\ "i" \notin DOMAIN locals
                 /\ (source = X_ForLoop => out = Printed012 /\ phase # "fatal")
                 /\ (source # X_ForLoop => phase # "done")
                 /\ (phase = "fatal" =>
                        err = "Exception" /\ ctl = Eval(VariableExpression("i"))))
    /\ [][(C6_Run /\ phase = "exec" /\ TopIndex > 0
              /\ ctl = Eval(VariableExpression("i")))
            => (phase' = "fatal" /\ err' = "Exception" /\ out' = out)]_vars

\* the loop printed 0, 1, 2, i is gone, and the read of i that follows aborted
C6_Witness ==
    /\ C6_Run /\ source # X_ForLoop /\ TopIndex = 1
    /\ phase = "fatal" /\ err = "Exception"
    /\ out = Printed012 /\ "i" \notin DOMAIN globals
    /\ ctl = Eval(VariableExpression("i"))

\* the activation of the innermost call whose body is running: its index in
\* stack, 0 when no body is running
InnerCall(s) ==
    IF Nest(s) = 0 THEN 0
    ELSE CHOOSE j \in 1 .. Len(s) :
            s[j].k = "call_body" /\ \A m \in j + 1 .. Len(s) : s[m].k # "call_body"

\* a call with fewer arguments than parameters enters the body of the
\* function: the scope of the body binds the first N parameter names, and
\* no other name
C7_BindsFirstN ==
    (phase = "exec" /\ Nest(stack') = Nest(stack) + 1) =>
        LET fr == Top(stack') IN
        Len(fr.args) < Len(fr.f.arguments) =>
            /\ DOMAIN locals' = {fr.f.arguments[j].name : j \in 1 .. Len(fr.args)}
            /\ \A j \in 1 .. Len(fr.args) :
                  fr.args[j].kind = "LITERAL" =>
                      locals'[fr.f.arguments[j].name] = fr.args[j].expr

\* the body of a call with fewer arguments than parameters is about to read
\* one of the parameter names the call left unbound
C7_ReadsUnbound ==
    /\ phase = "exec" /\ ctl.k = "eval" /\ ctl.node.kind = "VARIABLE"
    /\ Nest(stack) > 0
    /\ LET fr == stack[InnerCall(stack)] IN
       /\ Len(fr.args) < Len(fr.f.arguments)
       /\ \E j \in Len(fr.args) + 1 .. Len(fr.f.arguments) :
             fr.f.arguments[j].name = ctl.node.name
    /\ ctl.node.name \notin DOMAIN locals

\* C7 as stated: in both evaluators a call with N arguments, N smaller than
\* the number of parameters, binds only the first N parameter names in the
\* call's fresh scope, and any read of a remaining, unbound parameter name
\* inside the body is fatal, whatever the caller's scope and the globals
C7_UnboundReadFatal ==
    [][C7_BindsFirstN /\ (C7_ReadsUnbound => phase' = "fatal")]_vars

\* C7, amended: the call binds only the first N parameter names; a read of
\* an unbound parameter name inside the body is fatal in the prototype, and
\* in the extended evaluator it is fatal unless globals bind the name: then
\* the read gives the global's value and the program goes on
C7_UnboundReadFatalUnlessGlobal ==
    [][/\ C7_BindsFirstN
       /\ (C7_ReadsUnbound =>
              IF impl = "ext" /\ ctl.node.name \in DOMAIN globals
              THEN /\ phase' = "exec"
                   /\ ctl' = Return(globals[ctl.node.name])
                   /\ locals' = locals /\ globals' = globals
              ELSE /\ phase' = "fatal"
                   /\ err' = (IF impl = "proto" THEN "KeyError" ELSE "Exception")
                   /\ locals' = locals /\ out' = out)]_vars

\* f(a, b) was called with one argument and the read of b in its body gave
\* the value of the global b
C7_Witness ==
    /\ impl = "ext" /\ phase = "exec" /\ Nest(stack) = 1
    /\ stack[InnerCall(stack)].f.name = "f"
    /\ Len(stack[InnerCall(stack)].args) = 1
    /\ Len(stack[InnerCall(stack)].f.arguments) = 2
    /\ locals = ("a" :> Float(1))
    /\ "b" \in DOMAIN globals /\ ctl = Return(globals["b"])

\* C9: in the prototype `let` and `=` parse but have no execution path:
\* executing a Let statement and evaluating an `=` expression abort with
\* the internal-error fallback (AssertionError), print nothing and change
\* neither the scope nor the function table; so do the programs
\* `let x = 1;` and `x = 1;`
C9_LetAssignAbort ==
    /\ [][(P_Running /\ ((ctl.k = "exec_stmt" /\ ctl.node.kind = "LET")
                        \/ (ctl.k = "eval" /\ ctl.node.kind = "ASSIGN")))
            => /\ phase' = "fatal" /\ err' = "AssertionError"
               /\ UNCHANGED <<out, locals, functions>>]_vars
    /\ []((impl = "proto" /\ source \in {"let x = 1;", "x = 1;"}
              /\ phase \in {"done", "fatal"})
            => /\ phase = "fatal" /\ err = "AssertionError"
               /\ Len(ast) = 1 /\ ctl.k \in {"exec_stmt", "eval"}
               /\ out = <<>> /\ locals = EmptyMap /\ functions = EmptyMap)

\* `let x = 1;` was parsed to a Let statement and its execution aborted
C9_Witness ==
    /\ impl = "proto" /\ source = "let x = 1;"
    /\ phase = "fatal" /\ err = "AssertionError"
    /\ ast = <<P_LetStatement(P_AssignExpression(VariableExpression("x"),
                                                 LiteralExpression(Float(1))))>>
    /\ ctl = ExecStmt(ast[1]) /\ out = <<>> /\ locals = EmptyMap

\* C10: in the prototype, an If statement whose condition evaluates to
\* false executes neither the then-branch nor the else-branch, even when an
\* else-branch was parsed and stored: the statement yields None and changes
\* no state and prints nothing
C10_FalseIfSkipsBoth ==
    [][(P_Returning({"if"}) /\ ~Truthy(ctl.val))
         => /\ ctl' = Return(None) /\ stack' = Pop(stack)
            /\ UNCHANGED <<locals, functions, out, phase, err>>]_vars

\* an If statement with an else-branch and a false condition was executed,
\* and nothing was printed
C10_Witness ==
    /\ impl = "proto" /\ phase = "done" /\ Len(ast) = 1
    /\ ast[1].kind = "IF" /\ ast[1].else_branch # NoNode
    /\ ast[1].condition = LiteralExpression(Float(0))
    /\ out = <<>> /\ retval = None

\* the expression statement of a call of the name callee
CallStatement(callee, args) ==
    ExpressionStatement(CallExpression(VariableExpression(callee), args))

\* C11: in the prototype parser a call with any number of arguments,
\* including zero, parses to a Call node over the left operand: `f();`
\* parses as the expression statement of Call(f, []), the parselet taking
\* the tokens up to and including the one closing RPAREN; `f(a, b);` as
\* that of Call(f, [a, b])
C11_CallAnyArity ==
    /\ (impl = "proto" /\ source = "f();" /\ phase \notin {"lex", "parse"})
          => ast = <<CallStatement("f", <<>>)>>
    /\ (impl = "proto" /\ source = "f(a, b);" /\ phase \notin {"lex", "parse"})
          => ast = <<CallStatement("f", <<VariableExpression("a"),
                                          VariableExpression("b")>>)>>

\* C12: the prototype parser accepts a function declaration with two
\* comma-separated parameters, `fn f(a, b) { ... }`, and produces an Fn
\* statement whose parameter list holds them in declaration order
C12_FnCommaParameters ==
    (impl = "proto" /\ source = "fn f(a, b) { return a; }"
        /\ phase \notin {"lex", "parse"})
      => /\ phase # "fatal"
         /\ ast = <<FnStatement("f", <<VariableExpression("a"), VariableExpression("b")>>,
                                <<ReturnStatement(VariableExpression("a"))>>)>>

\* either interpreter is executing
Running == P_Running \/ X_Running

\* the names zip(parameters, arguments) pairs in the call of frame fr
BoundNames(fr) ==
    {fr.f.arguments[j].name : j \in 1 .. ZipLen(fr.f.arguments, fr.args)}

\* C13: in both evaluators a Call swaps in a fresh scope built from the
\* parameter/argument pairs, saving the scope that was active; while the
\* body runs, at any nesting of calls, no step changes a saved scope; when
\* the body completes the call puts back the scope it saved, so that the
\* caller's bindings are what they were and the callee's are gone; when a
\* step aborts fatally nothing is restored and the callee's scope stays
C13_CallScope ==
    [][Running =>
        \* the swap
        /\ (Nest(stack') = Nest(stack) + 1 =>
               /\ Top(stack').k = "call_body"
               /\ Top(stack').old_locals = locals
               /\ DOMAIN locals' = BoundNames(Top(stack')))
        \* the activations under the innermost are left alone, and so is
        \* that of a call whose body runs
        /\ \A j \in 1 .. Len(stack) :
               (j < Len(stack) \/ stack[j].k = "call_body") /\ j <= Len(stack')
                   => stack'[j] = stack[j]
        \* the restore
        /\ (Nest(stack') = Nest(stack) - 1 =>
               /\ Top(stack).k = "call_body" /\ stack' = Pop(stack)
               /\ locals' = Top(stack).old_locals
               /\ phase' = phase)
        \* a fatal step
        /\ (phase' = "fatal" => locals' = locals /\ stack' = stack)
      ]_vars

\* the recursive c(2) has returned 2 + (1 + 0): each activation found its own
\* m again after the inner call had bound m and n anew, and the scope the
\* interpreter was constructed with is back
C13_Witness ==
    /\ impl = "ext" /\ phase = "done"
    /\ Len(ast) = 2 /\ ast[1].kind = "FN" /\ ast[1].name = "c"
    /\ out = <<Float(3)>>
    /\ locals = input.locals0 /\ locals # EmptyMap

\* the number of Block statements whose body is being executed
Blocks(s) == Cardinality({j \in 1 .. Len(s) : s[j].k = "block"})

\* C14: in the extended runtime depth is never negative and is always the
\* depth the interpreter was constructed with plus the number of blocks
\* being executed: a statement that completes without a fatal error is back
\* at the activations it started with, hence at the depth it started with,
\* also when it returns a value out of nested blocks, loops over a block
\* or calls (recursively); depth at the exit of a For loop is depth at its
\* entry, and after a program finishes normally depth is what it started
\* with (0 when started with 0)
C14_DepthBalanced ==
    impl = "ext" =>
        /\ depth >= 0
        /\ depth = input.depth0 + Blocks(stack)
        /\ (phase = "done" => depth = input.depth0 /\ stack = <<>>)

\* f(1) returned 1 out of three nested blocks and f(0) returned 0, in a
\* run started with depth 0; depth is 0 again
C14_Witness ==
    /\ impl = "ext" /\ phase = "done" /\ input.depth0 = 0
    /\ Len(ast) = 3 /\ ast[1].kind = "FN" /\ ast[1].body.kind = "BLOCK"
    /\ ast[1].body.body[1].kind = "BLOCK"
    /\ out = <<Float(1), Float(0)>>
    /\ depth = 0

\* the innermost activation is a While statement
InWhile == Len(stack) > 0 /\ Top(stack).k \in {"while_cond", "while_body"}

\* C15: in the extended runtime a While statement stops normally only when
\* its condition evaluates to false, and then yields None; whatever the body
\* returns, a Return's value included, the loop goes on with the condition
\* and the value is dropped; so a function whose last statement is a while
\* loop yields None (f(2) prints None, not 7)
C15_WhileYieldsNone ==
    /\ [][(X_Running /\ InWhile) =>
            \* the loop is left: the condition was false, the result is None
            /\ (Len(stack') < Len(stack) =>
                   /\ X_Returning({"while_cond"}) /\ ~Truthy(ctl.val)
                   /\ ctl' = Return(None) /\ stack' = Pop(stack))
            /\ (X_Returning({"while_cond"}) /\ ~Truthy(ctl.val) =>
                   ctl' = Return(None) /\ stack' = Pop(stack))
            \* the body has returned, with or without a value
            /\ (X_Returning({"while_body"}) =>
                   /\ ctl' = Eval(Top(stack).node.condition)
                   /\ Len(stack') = Len(stack) /\ Top(stack').k = "while_cond"
                   /\ Top(stack').node = Top(stack).node)
          ]_vars
    /\ []((impl = "ext" /\ phase = "done" /\ Len(ast) = 2 /\ ast[1].kind = "FN"
               /\ Len(ast[1].body.body) = 1 /\ ast[1].body.body[1].kind = "WHILE")
             => out = <<None>>)

\* the body of the loop of f returned 7 and the loop went on with that value
\* dropped
C15_Witness ==
    /\ X_Returning({"while_body"}) /\ ctl.val = Float(7)
    /\ Nest(stack) = 1 /\ locals = ("n" :> Float(1))

\* a statement of the sequence of the innermost exec / _exec has returned
SequenceReturning == P_Returning({"exec"}) \/ X_Returning({"exec"})

\* C16: in both evaluators a statement sequence (program, function body,
\* block) executes its statements in source order from the first; it stops
\* at the first statement that yields a result other than None and yields
\* that result, without executing a later statement (no print, no write, no
\* function registration); when every statement yields None all are
\* executed and the sequence yields None
C16_SequenceStopsAtResult ==
    /\ [][Running =>
            \* a sequence starts at its first statement
            /\ ((ctl'.k = "exec" /\ ~SequenceReturning) => ctl'.i = 0)
            \* the next statement in source order is executed
            /\ ((ctl.k = "exec" /\ ctl.i < Len(ctl.body)) =>
                   /\ ctl' = ExecStmt(ctl.body[ctl.i + 1])
                   /\ stack' = Push(stack, ctl)
                   /\ UNCHANGED <<out, locals, globals, functions, depth>>)
            \* all statements were executed and none yielded a result
            /\ ((ctl.k = "exec" /\ ctl.i >= Len(ctl.body)) =>
                   /\ ctl' = Return(None) /\ stack' = stack
                   /\ UNCHANGED <<out, locals, globals, functions, depth>>)
            \* a statement yielded a result: the sequence ends with it
            /\ ((SequenceReturning /\ ctl.val # None) =>
                   /\ ctl' = Return(ctl.val) /\ stack' = Pop(stack)
                   /\ UNCHANGED <<out, locals, globals, functions, depth>>)
            \* a statement yielded None: the sequence goes on after it
            /\ ((SequenceReturning /\ ctl.val = None) =>
                   /\ ctl' = Exec(Top(stack).body, Top(stack).i + 1)
                   /\ stack' = Pop(stack)
                   /\ UNCHANGED <<out, locals, globals, functions, depth>>)
            \* a block yields what its sequence yields
            /\ (X_Returning({"block"}) => ctl' = Return(ctl.val))
          ]_vars
    /\ []((phase = "done" /\ source \in {"print 1; return 2; print 3;",
                                          "print 1 ; return 2 ; print 3 ;",
                                          "{ print 1 ; return 2 ; y = 5 ; } print 3 ;"})
             => /\ out = <<Float(1)>> /\ retval = Float(2)
                /\ locals = input.locals0 /\ globals = input.globals0)
    /\ []((phase = "done" /\ source = "print 1; print 2;")
             => out = <<Float(1), Float(2)>> /\ retval = None)
    /\ []((phase \in {"done", "fatal"} /\ Len(ast) = 3 /\ ast[1].kind = "FN"
               /\ source \in P_SequencePrograms \cup X_SequencePrograms)
             => /\ phase = "fatal" /\ err = "KeyError"
                /\ out = <<Float(1), Float(1)>>
                /\ DOMAIN functions = {"f"}
                /\ globals = input.globals0)

\* the body of f stopped at `return a`: 9 was not printed and g was not
\* registered, so that the call of g aborted
C16_Witness ==
    /\ impl = "proto" /\ phase = "fatal" /\ err = "KeyError"
    /\ Len(ast) = 3 /\ ast[1].kind = "FN" /\ Len(ast[1].body) = 4
    /\ ast[1].body[2].kind = "RETURN"
    /\ out = <<Float(1), Float(1)>>
    /\ DOMAIN functions = {"f"}

\* C18: in the extended runtime a Block changes only depth: entering and
\* leaving it leave locals and globals as they are, so a name assigned
\* inside a block stays in locals after the block, and a later read of it,
\* also at depth 0, returns that value rather than the global of the same
\* name: `let x = 1 ; { x = 2 ; } print x ;` prints 2 while globals holds
\* x = 1
C18_BlockKeepsBindings ==
    /\ [][X_Running =>
            /\ ((ctl.k = "exec_stmt" /\ ctl.node.kind = "BLOCK") =>
                   /\ depth' = depth + 1
                   /\ UNCHANGED <<locals, globals, functions, out>>)
            /\ (X_Returning({"block"}) =>
                   /\ depth' = depth - 1
                   /\ UNCHANGED <<locals, globals, functions, out>>)
            /\ ((ctl.k = "eval" /\ ctl.node.kind = "VARIABLE"
                    /\ ctl.node.name \in DOMAIN locals) =>
                   ctl' = Return(locals[ctl.node.name]))
          ]_vars
    /\ []((impl = "ext" /\ phase = "done" /\ input.depth0 = 0
              /\ source = "let x = 1 ; { x = 2 ; } print x ;")
             => /\ out = <<Float(2)>>
                /\ locals = Store(input.locals0, "x", Float(2))
                /\ globals = Store(input.globals0, "x", Float(1))
                /\ depth = 0)

\* x = 2 written in the block is read at depth 0, after the block, while
\* globals holds x = 1
C18_Witness ==
    /\ X_Running /\ depth = 0 /\ Len(stack) = 2 /\ Top(stack).k = "print"
    /\ ctl = Eval(VariableExpression("x"))
    /\ locals = ("x" :> Float(2)) /\ globals = ("x" :> Float(1))

\* the statement sequences the prototype may run: the program and the
\* bodies of the functions registered
P_Sequences == {ast} \cup {functions[f].body : f \in DOMAIN functions}

\* C19: in the prototype evaluator a Block statement has no execution
\* path: when execution reaches a block (at top level, as the then-branch
\* of an if whose condition is true, in a function body) the run aborts
\* with AssertionError before any statement inside the block is executed:
\* nothing is printed, written or registered by that step, and the
\* statement list of a block is never run
C19_BlockAborts ==
    /\ [][(P_Running /\ ctl.k = "exec_stmt" /\ ctl.node.kind = "BLOCK") =>
            /\ phase' = "fatal" /\ err' = "AssertionError"
            /\ UNCHANGED <<ctl, stack, out, locals, functions, retval>>]_vars
    /\ []((P_Running /\ ctl.k = "exec") => ctl.body \in P_Sequences)
    \* the abort ends the run
    /\ [][impl = "proto" => phase # "fatal"]_vars
    /\ []((source \in P_BlockReachedPrograms /\ phase \in {"done", "fatal"}) =>
            /\ phase = "fatal" /\ err = "AssertionError"
            /\ out \in {<<>>, <<Float(0)>>, <<Float(1)>>}
            /\ "x" \notin DOMAIN locals /\ DOMAIN functions \subseteq {"f"})
    /\ []((source \in P_BlockSkippedPrograms /\ phase \in {"done", "fatal"}) =>
            /\ phase = "done"
            /\ out \in {<<>>, <<Float(2)>>, <<Float(3), Float(2)>>})

\* the block that is the then-branch of `if (0 < 1)` was reached after
\* print 0 and the run aborted there: x was not written, nothing more was
\* printed
C19_Witness ==
    /\ impl = "proto" /\ phase = "fatal" /\ err = "AssertionError"
    /\ ctl.k = "exec_stmt" /\ ctl.node.kind = "BLOCK" /\ Len(ctl.node.body) = 2
    /\ Len(stack) = 1 /\ stack[1].k = "exec"
    /\ out = <<Float(0)>> /\ locals = EmptyMap

(***************************************************************************)
(* SpecLex: the prototype Tokenizer on every source text of at most        *)
(* MaxSrcLen characters over LexAlphabet.                                  *)
(***************************************************************************)
LexAlphabet == {"i", "f", "y", "n", "1", " ", ";", "_"}

RECURSIVE Strings(_, _)
Strings(A, n) ==
    IF n = 0 THEN {""}
    ELSE LET S == Strings(A, n - 1) IN S \cup {s \o c : s \in S, c \in A}

InitLex ==
    /\ impl = "proto" /\ phase = "lex"
    /\ source \in Strings(LexAlphabet, MaxSrcLen)
    /\ current = 0 /\ tokens = <<>>
    /\ locals = EmptyMap /\ globals = EmptyMap /\ depth = 0
    /\ input = source
    /\ InitRun

NextLex == P_TokenizeStep \/ P_TokenizeEnd

SpecLex == InitLex /\ [][NextLex]_vars

\* C2: tokenizing the exact text "iffy" returns [IF, IDENTIFIER("fy"), EOF]
C2_IffyTokens ==
    (source = "iffy" /\ phase # "lex") =>
        /\ phase = "parse"
        /\ tokens = <<Token("IF", "if"), Token("IDENTIFIER", "fy"), Token("EOF", "")>>

\* C3: for every source text made only of recognized characters (one on
\* which tokenize does not raise "Unknown token"), tokenize returns a list
\* whose last token is EOF with an empty value and that holds no other EOF
C3_EofTerminated ==
    (phase # "lex" /\ err # "Exception") =>
        /\ phase = "parse"
        /\ Len(tokens) >= 1
        /\ tokens[Len(tokens)] = Token("EOF", "")
        /\ \A k \in 1 .. Len(tokens) - 1 : tokens[k].kind # "EOF"

(***************************************************************************)
(* SpecParseExpr: parse_expression(0) of both Parsers on every expression  *)
(* of at most MaxExprOps binary operators, followed by ";" and EOF.  The   *)
(* k-th operand is the number or the identifier of position k.             *)
(***************************************************************************)
MaxExprOps == 3

OperatorTokens ==
    {Token("PLUS", "+"), Token("MINUS", "-"), Token("STAR", "*"), Token("SLASH", "/"),
     Token("LT", "<"), Token("EQUAL", "=")}

OperandTokens(k) ==
    {Token("NUMBER", SubSeq("123456789", k, k)), Token("IDENTIFIER", SubSeq("abcdefghi", k, k))}

\* the token lists of the expressions with exactly n operators
RECURSIVE ExprTokens(_)
ExprTokens(n) ==
    IF n = 0 THEN {<<a>> : a \in OperandTokens(1)}
    ELSE {e \o <<o, a>> : e \in ExprTokens(n - 1), o \in OperatorTokens,
                          a \in OperandTokens(n + 1)}

ExprEnd == <<Token("SEMICOLON", ";"), Token("EOF", "")>>

InitParseExpr ==
    /\ impl = "proto" /\ phase = "parse"
    /\ \E n \in 0 .. MaxExprOps : \E e \in ExprTokens(n) : tokens = e \o ExprEnd
    /\ input = tokens
    /\ source = "" /\ current = 0
    /\ locals = EmptyMap /\ globals = EmptyMap /\ depth = 0
    /\ InitRun

\* the prototype's Parser(tokens).parse_expression(0)
P_ParseExpression ==
    /\ impl = "proto" /\ phase = "parse" /\ pres = Pending
    /\ pres' = P_parse_expression(tokens, 0)
    /\ impl' = "ext"
    /\ UNCHANGED <<phase, err, tokens, ast, lexVars, runVars, input, xres>>

\* the extended Parser(tokens).parse_expression(0)
X_ParseExpression ==
    /\ impl = "ext" /\ phase = "parse" /\ xres = Pending
    /\ xres' = X_parse_expression(tokens, 0)
    /\ phase' = "done"
    /\ UNCHANGED <<impl, err, tokens, ast, lexVars, runVars, input, pres>>

NextParseExpr == P_ParseExpression \/ X_ParseExpression

SpecParseExpr == InitParseExpr /\ [][NextParseExpr]_vars

\* the reference grammar: the precedence of an operator
RefPrecedence(v) ==
    CASE v = "=" -> 1
      [] v = "<" -> 2
      [] v \in {"+", "-"} -> 3
      [] v \in {"*", "/"} -> 4

\* the tree the reference grammar gives to operand (op operand)*: the root
\* is the rightmost of the operators of the lowest precedence
RECURSIVE RefTree(_)
RefTree(e) ==
    IF Len(e) = 1
    THEN IF e[1].kind = "NUMBER" THEN LiteralExpression(float(e[1].value))
         ELSE VariableExpression(e[1].value)
    ELSE LET ops  == {k \in 1 .. Len(e) : k % 2 = 0}
             low  == CHOOSE p \in {RefPrecedence(e[k].value) : k \in ops} :
                        \A k \in ops : p <= RefPrecedence(e[k].value)
             root == CHOOSE k \in ops :
                        /\ RefPrecedence(e[k].value) = low
                        /\ \A m \in ops : RefPrecedence(e[m].value) = low => m <= k
         IN [op |-> e[root].value,
             lhs |-> RefTree(SubSeq(e, 1, root - 1)),
             rhs |-> RefTree(SubSeq(e, root + 1, Len(e)))]

\* a parsed expression as operator symbols over its operands
RECURSIVE Shape(_)
Shape(node) ==
    CASE node.kind = "BINARY" ->
            [op |-> CASE node.op = "ADD" -> "+" [] node.op = "SUB" -> "-"
                      [] node.op = "MUL" -> "*" [] node.op = "DIV" -> "/"
                      [] node.op = "LT" -> "<",
             lhs |-> Shape(node.lhs), rhs |-> Shape(node.rhs)]
      [] node.kind = "ASSIGN" ->
            [op |-> "=", lhs |-> Shape(node.lhs), rhs |-> Shape(node.rhs)]
      [] OTHER -> node

\* the result r of parse_expression(0) on input is the reference tree, with
\* ";" and EOF left
ParsedAsReference(r) ==
    /\ r.err = ""
    /\ r.tokens = ExprEnd
    /\ Shape(r.node) = RefTree(SubSeq(input, 1, Len(input) - 2))

\* C4: in both parsers, for every expression of number / identifier
\* operands and the operators + - * / < =, parse_expression(0) builds the
\* tree of the reference precedence grammar EQUAL=1 < LT=2 < PLUS=MINUS=3 <
\* STAR=SLASH=4: higher precedence binds tighter, equal precedence groups
\* to the left
C4_PrecedenceTree ==
    /\ (pres # Pending => ParsedAsReference(pres))
    /\ (xres # Pending => ParsedAsReference(xres))

\* both parsers gave (1 + (b * 3)) for 1 + b * 3
C4_Witness ==
    /\ pres # Pending /\ xres # Pending
    /\ input = <<Token("NUMBER", "1"), Token("PLUS", "+"), Token("IDENTIFIER", "b"),
                 Token("STAR", "*"), Token("NUMBER", "3")>> \o ExprEnd
    /\ pres.node = BinaryExpression("ADD", LiteralExpression(Float(1)),
                       BinaryExpression("MUL", VariableExpression("b"),
                                        LiteralExpression(Float(3))))
    /\ xres.node = pres.node

(***************************************************************************)
(* SpecParse: Parser.parse of both Parsers on token lists that end in one  *)
(* EOF token: every list of at most MaxTokens tokens before the EOF, and   *)
(* every program of ParsePrograms cut off after any number of tokens.      *)
(***************************************************************************)
MaxTokens == 3

\* one text for each kind of token the prototype's TokenKind has, the
\* operators standing for one another
P_ParseWords == {"1", "f", "+", "(", ")", "{", "}", ";", ",",
                 "print", "fn", "if", "else"}

X_ParseWords == P_ParseWords \cup {"while", "for"}

P_ParsePrograms ==
    {"fn f ( a b ) { print a ; return f ( a , b ) + 1 ; } f ( 1 , 2 ) ;",
     "if ( a < 1 ) { let x = 1 ; } else print f ( x ) ; { { 1 ; } }"}

X_ParsePrograms ==
    P_ParsePrograms \cup
    {"fn f ( a , b ) { while ( a < b ) a = a + 1 ; } f ( ) ;",
     "for ( let i = 0 ; i < 3 ; i = i + 1 ) print f ( i , 3 ) ;"}

\* the lists of at most n tokens of the words ws
RECURSIVE TokenLists(_, _)
TokenLists(ws, n) ==
    IF n = 0 THEN {<<>>}
    ELSE LET shorter == TokenLists(ws, n - 1) IN
         shorter \cup {Append(l, X_Token(w)) : l \in shorter, w \in ws}

\* the token lists of the texts, cut off after any number of tokens
CutOff(texts) ==
    UNION {{SubSeq(X_Tokens(t), 1, n) : n \in 0 .. Len(X_Tokens(t)) - 1} : t \in texts}

ParseInputs(ws, texts) ==
    {l \o <<Token("EOF", "")>> : l \in TokenLists(ws, MaxTokens) \cup CutOff(texts)}

InitParse ==
    /\ phase = "parse"
    /\ \/ impl = "proto" /\ tokens \in ParseInputs(P_ParseWords, P_ParsePrograms)
       \/ impl = "ext" /\ tokens \in ParseInputs(X_ParseWords, X_ParsePrograms)
    /\ input = tokens
    /\ source = "" /\ current = 0
    /\ locals = EmptyMap /\ globals = EmptyMap /\ depth = 0
    /\ InitRun

NextParse == P_ParseStep \/ P_ParseEnd \/ X_ParseStep \/ X_ParseEnd

SpecParse == InitParse /\ [][NextParse]_vars

\* a token list that holds one EOF token, as its last token
EofTerminated(toks) ==
    /\ Len(toks) > 0
    /\ \A k \in 1 .. Len(toks) : toks[k].kind = "EOF" <=> k = Len(toks)

\* parse_statement (what = "statement") or parse_expression(0) (what =
\* "expression") of the Parser of the run, on the tokens left
ParseNow(what) ==
    IF impl = "proto" THEN P_step(what, tokens) ELSE X_step(what, tokens)

\* the result r of a parsing method takes at least one of the tokens left,
\* fails by an assertion only, and after taking EOF does fail
TakesTokens(r) ==
    /\ Len(r.tokens) < Len(tokens)
    /\ r.err \in {"", "AssertionError"}
    /\ (r.err = "" => EofTerminated(r.tokens))

\* C17: on every token list that ends in one EOF token Parser.parse of
\* both Parsers terminates (each iteration of its loop takes at least one
\* of finitely many tokens, or ends the parse): it returns
\* with exactly the EOF token left or aborts on a failed assertion; it
\* never goes on after taking the EOF token and never reads from an empty
\* token list (no IndexError); every iteration of the loops of parse, of a
\* block or function body and of an argument list (a parse_statement or a
\* parse_expression call) takes at least one token
C17_ParseTerminates ==
    /\ phase \in {"parse", "exec", "fatal"}
    /\ (phase = "parse" =>
            /\ EofTerminated(tokens)
            /\ TakesTokens(ParseNow("statement"))
            /\ TakesTokens(ParseNow("expression")))
    \* each statement parsed so far took at least one token
    /\ (phase \in {"parse", "exec"} => Len(ast) + Len(tokens) <= Len(input))
    /\ (phase = "exec" => tokens = <<Token("EOF", "")>>)
    /\ (phase = "fatal" => err = "AssertionError")

\* the parser took the EOF token where it wanted an expression (the print
\* statement of the else branch cut off after `print`) and aborted
C17_Witness ==
    /\ phase = "fatal" /\ err = "AssertionError" /\ tokens = <<>>
    /\ Len(input) > MaxTokens + 1
    /\ input[Len(input) - 1].kind = "PRINT"

(***************************************************************************)
(* SpecEval: the two evaluators on every expression tree of at most        *)
(* MaxTreeOps operators + - * / < over the literals of EvalLiterals:       *)
(* Interpreter({}, {})._eval(input), then                                  *)
(* input.eval(Interpreter({}, {}, {}, 0)).                                 *)
(***************************************************************************)
MaxTreeOps == 2

EvalLiterals == {0, 2}
EvalKinds == {"ADD", "SUB", "MUL", "DIV", "LT"}

\* the trees with exactly n operators
RECURSIVE TreesOf(_)
TreesOf(n) ==
    IF n = 0 THEN {LiteralExpression(Float(v)) : v \in EvalLiterals}
    ELSE UNION {{BinaryExpression(kind, l, r) :
                    kind \in EvalKinds, l \in TreesOf(m), r \in TreesOf(n - 1 - m)} :
                m \in 0 .. n - 1}

InitEval ==
    /\ impl = "proto" /\ phase = "exec"
    /\ \E n \in 0 .. MaxTreeOps : input \in TreesOf(n)
    /\ ctl = Eval(input) /\ stack = <<>>
    /\ source = "" /\ current = 0 /\ tokens = <<>> /\ ast = <<>>
    /\ locals = EmptyMap /\ globals = EmptyMap /\ depth = 0
    /\ functions = EmptyMap /\ out = <<>> /\ retval = None /\ err = ""
    /\ pres = Pending /\ xres = Pending

\* the outcome of the prototype evaluator is kept and the extended
\* evaluator is started on the same tree
X_EvalStart ==
    /\ impl = "proto" /\ phase \in {"done", "fatal"}
    /\ pres' = [err |-> err, val |-> retval]
    /\ impl' = "ext" /\ phase' = "exec" /\ err' = "" /\ retval' = None
    /\ ctl' = Eval(input) /\ stack' = <<>>
    /\ UNCHANGED <<tokens, ast, lexVars, input, xres,
                   locals, globals, functions, depth, out>>

NextEval ==
    \/ P_eval \/ P_eval_return \/ P_Finish
    \/ X_EvalStart
    \/ X_eval \/ X_eval_return \/ X_Finish

SpecEval == InitEval /\ [][NextEval]_vars

\* C8: for every expression tree built only from numeric literals and the
\* operators + - * / <, the prototype evaluator and the extended evaluator
\* give the same outcome: the same value, or a fatal error in both
C8_SameOutcome ==
    (impl = "ext" /\ phase \in {"done", "fatal"}) =>
        /\ (phase = "fatal") = (pres.err # "")
        /\ (phase = "done" => retval = pres.val)
        /\ err = pres.err

\* both evaluators gave 0.5 for 2 / (2 + 2)
C8_Witness ==
    /\ impl = "ext" /\ phase = "done"
    /\ input = BinaryExpression("DIV", LiteralExpression(Float(2)),
                   BinaryExpression("ADD", LiteralExpression(Float(2)),
                                    LiteralExpression(Float(2))))
    /\ pres = [err |-> "", val |-> Number("float", 1, 2)]
    /\ retval = pres.val

====
